---------------------------- MODULE Spec2Model ----------------------------
(***************************************************************************)
(* A model of yt_info_extract's extractor (src/yt_info_extract/            *)
(* extractor.py): the YouTubeVideoInfoExtractor class with its constructor,*)
(* identifier validator, three source adapters, retry controller,         *)
(* strategy selection and batch driver.                                    *)
(*                                                                         *)
(* Python values are tagged records: None, Str(<characters>), List(<seq>), *)
(* dicts and opaque objects.  Strings are sequences of one-character       *)
(* strings, so that lower-casing, length and alphabet tests are computed.  *)
(* The program is single-threaded: pc is the line the interpreter is at,   *)
(* batch / gvi / retry are the frames of batch_extract, get_video_info and *)
(* _extract_with_retry, and trace is the history of the observable events  *)
(* (time.sleep calls, adapter invocations, validations) of the running or  *)
(* last top-level call.                                                    *)
(***************************************************************************)
EXTENDS Integers, Sequences, FiniteSets, TLC

VARIABLES
    GOOGLE_API_AVAILABLE,   \* module global, extractor.py:15-21
    YT_DLP_AVAILABLE,       \* module global, extractor.py:23-28
    PYTUBEFIX_AVAILABLE,    \* module global, extractor.py:30-35
    self,                   \* the extractor instance, None before construction
    pc,                     \* the line the interpreter is at ("idle": no call is running)
    batch,                  \* frame of batch_extract
    gvi,                    \* frame of get_video_info
    retry,                  \* frame of _extract_with_retry
    call,                   \* history: the running or last top-level call and its arguments
    trace,                  \* history: events of the running or last top-level call
    ret,                    \* value returned by the last top-level call
    exc,                    \* exception raised by the last top-level call, or None
    at_construction,        \* history: the module globals when self was constructed
    fs,                     \* the file system: what each path holds
    cli,                    \* frame of cli.main
    other                   \* a second instance and its thread, while the first one runs

vars == <<GOOGLE_API_AVAILABLE, YT_DLP_AVAILABLE, PYTUBEFIX_AVAILABLE, self, pc,
          batch, gvi, retry, call, trace, ret, exc, at_construction, fs, cli,
          other>>

(***************************************************************************)
(* Bounds of the model.                                                    *)
(***************************************************************************)
\* max_retries is drawn from 0..MaxRetries
MaxRetries == 3
\* batch_extract is given lists of at most MaxBatchLen inputs
MaxBatchLen == 2
\* the exporters and the summary report are given lists of at most MaxRows records
MaxRows == 2
\* clean_description is given descriptions of at most MaxDescLen characters
MaxDescLen == 5

(***************************************************************************)
(* Python values.                                                          *)
(***************************************************************************)
None == [t |-> "None"]

Str(chars) == [t |-> "str", s |-> chars]

List(seq) == [t |-> "list", v |-> seq]

PyInt(n) == [t |-> "int", n |-> n]

PyBool(b) == [t |-> "bool", b |-> b]

PyTrue == PyBool(TRUE)

PyFalse == PyBool(FALSE)

\* an opaque, truthy object (the googleapiclient service handle)
Object == [t |-> "object"]

Exception(type) == [t |-> "exception", type |-> type]

\* Python truth value testing, as used by `or`, `if x:` and `if not x:`
Truthy(v) ==
    CASE v.t = "None" -> FALSE
      [] v.t = "str" -> v.s # <<>>
      [] v.t = "list" -> v.v # <<>>
      [] v.t = "int" -> v.n # 0
      [] v.t = "bool" -> v.b
      [] OTHER -> TRUE

\* a or b
Or(a, b) == IF Truthy(a) THEN a ELSE b

UpperCase == <<"A","B","C","D","E","F","G","H","I","J","K","L","M",
               "N","O","P","Q","R","S","T","U","V","W","X","Y","Z">>

LowerCase == <<"a","b","c","d","e","f","g","h","i","j","k","l","m",
               "n","o","p","q","r","s","t","u","v","w","x","y","z">>

Digits == <<"0","1","2","3","4","5","6","7","8","9">>

Range(f) == {f[i] : i \in DOMAIN f}

LowerChar(c) ==
    IF \E i \in DOMAIN UpperCase : UpperCase[i] = c
    THEN LowerCase[CHOOSE i \in DOMAIN UpperCase : UpperCase[i] = c]
    ELSE c

\* str.lower()
Lower(v) == Str([i \in DOMAIN v.s |-> LowerChar(v.s[i])])

RECURSIVE Pow(_, _)
\* b ** e for a natural exponent (b ** 0 = 1)
Pow(b, e) == IF e = 0 THEN 1 ELSE b * Pow(b, e - 1)

(***************************************************************************)
(* String literals of the source.                                          *)
(***************************************************************************)
AUTO == Str(<<"a","u","t","o">>)

API == Str(<<"a","p","i">>)

YT_DLP == Str(<<"y","t","_","d","l","p">>)

PYTUBEFIX == Str(<<"p","y","t","u","b","e","f","i","x">>)

YOUTUBE_API == Str(<<"y","o","u","t","u","b","e","_","a","p","i">>)

EXTRACTION_FAILED ==
    Str(<<"E","x","t","r","a","c","t","i","o","n"," ","f","a","i","l","e","d">>)

\* valid_strategies, extractor.py:106
valid_strategies == {AUTO, API, YT_DLP, PYTUBEFIX}

\* a dict literal of the six keys of a video information record
VideoInfo(title, description, channel_name, publication_date, views, method) ==
    [t |-> "dict", title |-> title, description |-> description,
     channel_name |-> channel_name, publication_date |-> publication_date,
     views |-> views, extraction_method |-> method]

(***************************************************************************)
(* Events of the trace.                                                    *)
(***************************************************************************)
\* time.sleep(secs), called at the given source line
SleepEv(line, secs) == [ev |-> "sleep", line |-> line, secs |-> secs]

\* one invocation of an adapter method and the value it returned
AdapterEv(fn, result) == [ev |-> "adapter", fn |-> fn, result |-> result]

\* one call of _validate_video_id, made at the given source line
ValidateEv(line) == [ev |-> "validate", line |-> line]

\* one call of _extract_with_retry
RetryEv(strategy) == [ev |-> "retry", strategy |-> strategy]

(***************************************************************************)
(* _validate_video_id, extractor.py:117-136.                               *)
(***************************************************************************)
\* the characters of the class [A-Za-z0-9_-]
IdAlphabet == Range(UpperCase) \cup Range(LowerCase) \cup Range(Digits) \cup {"_", "-"}

\* re.match(r"^[A-Za-z0-9_-]{11}$", s): eleven characters of the class, then
\* the end of the string or a final newline
ReMatchId(s) ==
    /\ Len(s) \in {11, 12}
    /\ \A i \in 1..11 : s[i] \in IdAlphabet
    /\ Len(s) = 12 => s[12] = "\n"

\* _validate_video_id testing the length alone: C6 must detect it
_validate_video_id_LengthOnly(video_id) ==
    IF Len(video_id.s) = 11 THEN video_id ELSE None

\* _validate_video_id trusting the pattern alone: C14 must detect it
_validate_video_id_PatternOnly(video_id) ==
    IF ReMatchId(video_id.s) THEN video_id ELSE None

_validate_video_id(video_id) ==
    IF Len(video_id.s) = 11 /\ ReMatchId(video_id.s) THEN video_id ELSE None

(***************************************************************************)
(* The three sources.  What a source answers is the environment's choice;  *)
(* the metadata it holds for a video is a function of the identifier.      *)
(***************************************************************************)
SrcTitle(video_id) == Str(<<"T", ":">> \o video_id.s)

SrcDescription == Str(<<"l", "i", "n", "e", "1", "\n", "l", "i", "n", "e", "2">>)

SrcChannel == Str(<<"c", "h", "a", "n">>)

SrcPublishedAt ==
    Str(<<"2","0","0","5","-","0","4","-","2","3","T","0","0",":","0","0",":","0","0","Z">>)

SrcUploadDate == Str(<<"2","0","0","5","0","4","2","3">>)

SrcViewCount == Str(<<"4", "2">>)

Raise(type) == [kind |-> "raise", exc |-> type]

Return(value) == [kind |-> "return", value |-> value]

\* f"https://www.youtube.com/watch?v={video_id}", extractor.py:200 and 248
WatchUrl(video_id) ==
    Str(<<"h","t","t","p","s",":","/","/","w","w","w",".","y","o","u","t","u","b","e",
          ".","c","o","m","/","w","a","t","c","h","?","v","=">> \o video_id.s)

\* the identifier a source reads off a watch URL
UrlVideo(url) == Str(SubSeq(url.s, 33, Len(url.s)))

\* int(s) for the strings the API answers: decimal digits, ValueError otherwise
IsDecimal(v) == v.t = "str" /\ v.s # <<>> /\ \A i \in DOMAIN v.s : v.s[i] \in Range(Digits)

DigitValue(c) == (CHOOSE i \in DOMAIN Digits : Digits[i] = c) - 1

RECURSIVE DecimalValue(_)
DecimalValue(s) ==
    IF s = <<>> THEN 0
    ELSE 10 * DecimalValue(SubSeq(s, 1, Len(s) - 1)) + DigitValue(s[Len(s)])

\* what request.execute() does, extractor.py:157
ApiOutcomes(video_id) ==
    {Raise("HttpError"), Raise("Exception"),
     Return([t |-> "dict", items |-> List(<<>>)]),
     Return([t |-> "dict", items |-> List(<<
        [t |-> "dict",
         snippet |-> [t |-> "dict", title |-> SrcTitle(video_id),
                      description |-> SrcDescription, channelTitle |-> SrcChannel,
                      publishedAt |-> SrcPublishedAt],
         statistics |-> [t |-> "dict", viewCount |-> SrcViewCount]]>>)])}

\* what ydl.extract_info / ydl.sanitize_info do, extractor.py:208-210
YtDlpOutcomes(video_url) ==
    {Raise("DownloadError"), Raise("Exception"),
     Return([t |-> "dict", title |-> SrcTitle(UrlVideo(video_url)),
             description |-> SrcDescription, channel |-> None, uploader |-> SrcChannel,
             upload_date |-> SrcUploadDate, view_count |-> PyInt(42)])}

\* what YouTube(video_url) and its attributes do, extractor.py:251-258
PytubefixOutcomes(video_url) ==
    {Raise("Exception"),
     Return([t |-> "object", title |-> SrcTitle(UrlVideo(video_url)),
             description |-> SrcDescription, author |-> SrcChannel,
             publish_date |-> None, views |-> PyInt(42)])}

\* datetime.strptime(s, "%Y%m%d").isoformat() for an eight-digit date
StrptimeIsoformat(v) ==
    IF Len(v.s) = 8 /\ IsDecimal(v)
    THEN Return(Str(SubSeq(v.s, 1, 4) \o <<"-">> \o SubSeq(v.s, 5, 6) \o <<"-">>
                    \o SubSeq(v.s, 7, 8) \o <<"T","0","0",":","0","0",":","0","0">>))
    ELSE Raise("ValueError")

(***************************************************************************)
(* The adapters, extractor.py:138-264.  Each takes the outcome of its      *)
(* source and returns None or a video information record.                  *)
(***************************************************************************)
_get_video_info_api(video_id, outcome) ==
    IF ~Truthy(self.youtube_service) THEN None
    ELSE IF outcome.kind = "raise" THEN None
    ELSE LET response == outcome.value IN
         IF ~Truthy(response.items) THEN None
         ELSE LET video_item == response.items.v[1]
                  snippet == video_item.snippet
                  statistics == video_item.statistics
              IN  IF Truthy(statistics.viewCount) /\ ~IsDecimal(statistics.viewCount)
                  THEN None   \* int() raises ValueError, caught at line 182
                  ELSE VideoInfo(snippet.title, snippet.description,
                                 snippet.channelTitle, snippet.publishedAt,
                                 IF Truthy(statistics.viewCount)
                                 THEN PyInt(DecimalValue(statistics.viewCount.s))
                                 ELSE None,
                                 YOUTUBE_API)

\* _get_video_info_yt_dlp tagging its records as pytubefix's: C30 must detect it
_get_video_info_yt_dlp_TaggedPytubefix(video_id, outcome) ==
    IF ~YT_DLP_AVAILABLE THEN None
    ELSE IF outcome.kind = "raise" THEN None
    ELSE LET sanitized_info == outcome.value
             upload_date_str == sanitized_info.upload_date
             converted == IF Truthy(upload_date_str)
                          THEN StrptimeIsoformat(upload_date_str)
                          ELSE Return(None)
         IN  IF converted.kind = "raise" THEN None
             ELSE VideoInfo(sanitized_info.title, sanitized_info.description,
                            Or(sanitized_info.channel, sanitized_info.uploader),
                            converted.value, sanitized_info.view_count, PYTUBEFIX)

_get_video_info_yt_dlp(video_id, outcome) ==
    IF ~YT_DLP_AVAILABLE THEN None
    ELSE IF outcome.kind = "raise" THEN None
    ELSE LET sanitized_info == outcome.value
             upload_date_str == sanitized_info.upload_date
             converted == IF Truthy(upload_date_str)
                          THEN StrptimeIsoformat(upload_date_str)
                          ELSE Return(None)
         IN  IF converted.kind = "raise" THEN None   \* caught at line 230
             ELSE VideoInfo(sanitized_info.title, sanitized_info.description,
                            Or(sanitized_info.channel, sanitized_info.uploader),
                            converted.value, sanitized_info.view_count, YT_DLP)

\* _get_video_info_pytubefix answering an empty record when the source
\* raises: C15 must detect it
_get_video_info_pytubefix_EmptyRecord(video_id, outcome) ==
    IF ~PYTUBEFIX_AVAILABLE THEN None
    ELSE IF outcome.kind = "raise" THEN VideoInfo(None, None, None, None, None, PYTUBEFIX)
    ELSE LET yt == outcome.value IN
         VideoInfo(yt.title, yt.description, yt.author,
                   IF Truthy(yt.publish_date) THEN yt.publish_date.iso ELSE None,
                   yt.views, PYTUBEFIX)

_get_video_info_pytubefix(video_id, outcome) ==
    IF ~PYTUBEFIX_AVAILABLE THEN None
    ELSE IF outcome.kind = "raise" THEN None
    ELSE LET yt == outcome.value IN
         VideoInfo(yt.title, yt.description, yt.author,
                   IF Truthy(yt.publish_date) THEN yt.publish_date.iso ELSE None,
                   yt.views, PYTUBEFIX)

(***************************************************************************)
(* Inputs the operations are called with.                                  *)
(***************************************************************************)
V1 == Str(<<"j","N","Q","X","A","C","9","I","V","R","w">>)

V2 == Str(<<"d","Q","w","4","w","9","W","g","X","c","Q">>)

\* "invalid1": too short
Invalid1 == Str(<<"i","n","v","a","l","i","d","1">>)

\* eleven characters, one outside the alphabet
Invalid2 == Str(<<"j","N","Q","X","A","C","9","I","V","R","!">>)

EmptyStr == Str(<<>>)

AUTO_UPPER == Str(<<"A","U","T","O">>)

YT_DLP_MIXED == Str(<<"Y","t","_","D","l","p">>)

UNKNOWN == Str(<<"w","e","b">>)

\* strategy arguments of the constructor
InitStrategies == valid_strategies \cup {AUTO_UPPER, YT_DLP_MIXED, UNKNOWN}

\* strategy arguments of get_video_info and batch_extract (None: not given)
StrategyArgs == {None, EmptyStr} \cup valid_strategies \cup {AUTO_UPPER, UNKNOWN}

\* strategy arguments of a direct _extract_with_retry call
RetryStrategies == {API, YT_DLP, PYTUBEFIX, AUTO, UNKNOWN}

VideoInputs == {V1, Invalid1, Invalid2, EmptyStr}

BackoffFactors == {2, 3}

RateLimitDelays == {5}

ApiKeys == {None, EmptyStr, Str(<<"K">>)}

(***************************************************************************)
(* Frames and returns.                                                     *)
(***************************************************************************)
Flags == <<GOOGLE_API_AVAILABLE, YT_DLP_AVAILABLE, PYTUBEFIX_AVAILABLE>>

\* what no method of the extractor touches
Outside == <<at_construction, fs, cli, other>>

Log(events) == trace' = trace \o events

\* a top-level call starts: the histories are reset
Enter(c) == call' = c /\ ret' = None /\ exc' = None

\* _extract_with_retry returns value to its caller
RetryReturn(value) ==
    /\ retry' = None
    /\ IF retry.caller = "get_video_info"
       THEN /\ gvi' = [gvi EXCEPT !.result = value]
            /\ pc' = "gvi_319"
            /\ ret' = ret
       ELSE /\ ret' = value
            /\ pc' = "idle"
            /\ gvi' = gvi

\* get_video_info returns value to its caller
GviReturn(value) ==
    /\ gvi' = None
    /\ IF gvi.caller = "batch_extract"
       THEN /\ batch' = [batch EXCEPT !.result = value]
            /\ pc' = "batch_432"
            /\ ret' = ret
       ELSE /\ ret' = value
            /\ pc' = (IF gvi.caller = "main" THEN "cli_210" ELSE "idle")
            /\ batch' = batch

RetryFrame(caller, video_id, strategy) ==
    [caller |-> caller, video_id |-> video_id, strategy |-> strategy, attempt |-> 0]

BatchFrame(caller, video_inputs, strategy, delay_between_requests) ==
    [caller |-> caller, video_inputs |-> video_inputs, strategy |-> strategy,
     delay_between_requests |-> delay_between_requests,
     i |-> 0, results |-> <<>>, result |-> None]

GviFrame(caller, video_input, strategy) ==
    [caller |-> caller, video_input |-> video_input, strategy |-> strategy,
     video_id |-> None, use_strategy |-> None, strategies |-> <<>>, k |-> 0,
     result |-> None]

(***************************************************************************)
(* __init__, extractor.py:66-115.  environ_key is os.environ's              *)
(* YOUTUBE_API_KEY and build_ok whether build() returns a service.         *)
(***************************************************************************)
\* the service built at lines 97-103
InitService(api_key, environ_key, build_ok) ==
    IF GOOGLE_API_AVAILABLE /\ Truthy(Or(api_key, environ_key)) /\ build_ok
    THEN Object ELSE None

\* InitRaises without the check of lines 106-108: C10 must detect it
InitRaises_Unvalidated(strategy) ==
    IF Lower(strategy) = YT_DLP /\ ~YT_DLP_AVAILABLE THEN Exception("ImportError")
    ELSE IF Lower(strategy) = PYTUBEFIX /\ ~PYTUBEFIX_AVAILABLE THEN Exception("ImportError")
    ELSE None

\* InitRaises without the checks of lines 110-115: C11 must detect it
InitRaises_NoDependencyCheck(strategy) ==
    IF Lower(strategy) \notin valid_strategies THEN Exception("ValueError") ELSE None

\* the exception __init__ raises for this strategy argument, None if it returns
InitRaises(strategy) ==
    IF Lower(strategy) \notin valid_strategies THEN Exception("ValueError")
    ELSE IF Lower(strategy) = YT_DLP /\ ~YT_DLP_AVAILABLE THEN Exception("ImportError")
    ELSE IF Lower(strategy) = PYTUBEFIX /\ ~PYTUBEFIX_AVAILABLE THEN Exception("ImportError")
    ELSE None

\* the instance a constructor call that returns leaves: lines 88-103
Instance(api_key, environ_key, build_ok, strategy, max_retries, backoff_factor, rate_limit_delay) ==
    [t |-> "object",
     max_retries |-> max_retries,
     backoff_factor |-> backoff_factor,
     rate_limit_delay |-> rate_limit_delay,
     strategy |-> Lower(strategy),
     youtube_service |-> InitService(api_key, environ_key, build_ok)]

__init__(api_key, environ_key, build_ok, strategy, max_retries, backoff_factor, rate_limit_delay) ==
    /\ pc = "idle"
    /\ self = None
    /\ call' = [op |-> "__init__", strategy |-> strategy]
    /\ ret' = None
    /\ trace' = <<>>
    /\ exc' = InitRaises(strategy)
    /\ self' = IF InitRaises(strategy) # None THEN None
               ELSE Instance(api_key, environ_key, build_ok, strategy, max_retries,
                             backoff_factor, rate_limit_delay)
    /\ at_construction' = IF InitRaises(strategy) # None THEN at_construction ELSE Flags
    /\ UNCHANGED <<Flags, fs, cli, other, pc, batch, gvi, retry>>

(***************************************************************************)
(* get_available_strategies, extractor.py:372-388.                         *)
(***************************************************************************)
AvailableStrategies ==
    (IF Truthy(self.youtube_service) THEN <<API>> ELSE <<>>)
    \o (IF YT_DLP_AVAILABLE THEN <<YT_DLP>> ELSE <<>>)
    \o (IF PYTUBEFIX_AVAILABLE THEN <<PYTUBEFIX>> ELSE <<>>)

get_available_strategies ==
    /\ pc = "idle"
    /\ self # None
    /\ call' = [op |-> "get_available_strategies"]
    /\ trace' = <<>>
    /\ exc' = None
    /\ ret' = List(AvailableStrategies)
    /\ UNCHANGED <<Flags, Outside, self, pc, batch, gvi, retry>>

(***************************************************************************)
(* _extract_with_retry, extractor.py:335-370.                              *)
(***************************************************************************)
\* a direct call
Call_extract_with_retry(video_id, strategy) ==
    /\ pc = "idle"
    /\ self # None
    /\ Enter([op |-> "_extract_with_retry", video_id |-> video_id, strategy |-> strategy])
    /\ trace' = <<RetryEv(strategy)>>
    /\ retry' = RetryFrame("top", video_id, strategy)
    /\ pc' = "retry_346"
    /\ UNCHANGED <<Flags, Outside, self, batch, gvi>>

\* Dispatch with pytubefix as the branch of every other name: C25 must detect it
Dispatch_ElsePytubefix(strategy) ==
    IF strategy = API THEN "_get_video_info_api"
    ELSE IF strategy = YT_DLP THEN "_get_video_info_yt_dlp"
    ELSE "_get_video_info_pytubefix"

\* the adapter a strategy name dispatches to, lines 348-353 ("" for no adapter)
Dispatch(strategy) ==
    IF strategy = API THEN "_get_video_info_api"
    ELSE IF strategy = YT_DLP THEN "_get_video_info_yt_dlp"
    ELSE IF strategy = PYTUBEFIX THEN "_get_video_info_pytubefix"
    ELSE ""

\* the outcomes of the source behind an adapter
Outcomes(fn, video_id) ==
    IF fn = "_get_video_info_api" THEN ApiOutcomes(video_id)
    ELSE IF fn = "_get_video_info_yt_dlp" THEN YtDlpOutcomes(WatchUrl(video_id))
    ELSE PytubefixOutcomes(WatchUrl(video_id))

\* the call of the adapter method: what it returns, or the exception escaping it
Adapter(fn, video_id, outcome) ==
    IF fn = "_get_video_info_api" THEN Return(_get_video_info_api(video_id, outcome))
    ELSE IF fn = "_get_video_info_yt_dlp" THEN Return(_get_video_info_yt_dlp(video_id, outcome))
    ELSE Return(_get_video_info_pytubefix(video_id, outcome))

\* HasAttempt reading a max_retries that the instances share, the one the
\* other instance's constructor assigned: C23 must detect it
HasAttempt_SharedAttribute(attempt) ==
    attempt < (IF other.self # None THEN other.self.max_retries ELSE self.max_retries)

\* range(self.max_retries) has another attempt
HasAttempt(attempt) == attempt < self.max_retries

\* lines 346-362: the loop head and one attempt
Retry_attempt ==
    /\ pc = "retry_346"
    /\ IF ~HasAttempt(retry.attempt)
       THEN \* the loop is over: line 370
            /\ RetryReturn(None)
            /\ trace' = trace
       ELSE IF Dispatch(retry.strategy) = ""
       THEN \* lines 354-356
            /\ RetryReturn(None)
            /\ trace' = trace
       ELSE \E outcome \in Outcomes(Dispatch(retry.strategy), retry.video_id) :
              LET fn == Dispatch(retry.strategy)
                  out == Adapter(fn, retry.video_id, outcome)
              IN  IF out.kind = "raise"
                  THEN \* lines 361-362
                       /\ Log(<<AdapterEv(fn, None)>>)
                       /\ pc' = "retry_365"
                       /\ UNCHANGED <<retry, gvi, ret>>
                  ELSE /\ Log(<<AdapterEv(fn, out.value)>>)
                       /\ IF Truthy(out.value)
                          THEN RetryReturn(out.value)
                          ELSE /\ pc' = "retry_365"
                               /\ UNCHANGED <<retry, gvi, ret>>
    /\ UNCHANGED <<Flags, Outside, self, batch, call, exc>>

\* BackoffDue skipping the backoff before the last attempt: C24 must detect it
BackoffDue_NotBeforeLast(attempt) == attempt < self.max_retries - 2

\* the condition of line 365
BackoffDue(attempt) == attempt < self.max_retries - 1

\* BackoffDelay as a linear backoff: C2 must detect it
BackoffDelay_Linear(attempt) == self.backoff_factor * attempt

\* the delay of line 366
BackoffDelay(attempt) == Pow(self.backoff_factor, attempt)

\* lines 364-368: the backoff, then the next iteration
Retry_backoff ==
    /\ pc = "retry_365"
    /\ IF BackoffDue(retry.attempt)
       THEN Log(<<SleepEv(368, BackoffDelay(retry.attempt))>>)
       ELSE trace' = trace
    /\ retry' = [retry EXCEPT !.attempt = @ + 1]
    /\ pc' = "retry_346"
    /\ UNCHANGED <<Flags, Outside, self, batch, gvi, call, ret, exc>>

(***************************************************************************)
(* get_video_info, extractor.py:266-333.                                   *)
(***************************************************************************)
Call_get_video_info(video_input, strategy) ==
    /\ pc = "idle"
    /\ self # None
    /\ Enter([op |-> "get_video_info", video_input |-> video_input, strategy |-> strategy])
    /\ trace' = <<>>
    /\ gvi' = GviFrame("top", video_input, strategy)
    /\ pc' = "gvi_286"
    /\ UNCHANGED <<Flags, Outside, self, batch, retry>>

\* UseStrategy turning to "auto" when the named adapter is unavailable: C28
\* must detect it
UseStrategy_AutoWhenUnavailable(strategy) ==
    LET named == Or(strategy, self.strategy) IN
    IF \/ named = API /\ ~Truthy(self.youtube_service)
       \/ named = YT_DLP /\ ~YT_DLP_AVAILABLE
       \/ named = PYTUBEFIX /\ ~PYTUBEFIX_AVAILABLE
    THEN AUTO ELSE named

\* UseStrategy lower-casing the override as __init__ does: C29 must detect it
UseStrategy_LowerCased(strategy) == Lower(Or(strategy, self.strategy))

\* UseStrategy ignoring the override: C3 must detect it
UseStrategy_DefaultOnly(strategy) == self.strategy

\* line 292
UseStrategy(strategy) == Or(strategy, self.strategy)

\* RateLimit left out: C7 must detect it
RateLimit_Skipped == <<>>

\* line 295
RateLimit == <<SleepEv(295, self.rate_limit_delay)>>

\* lines 285-295: validation, effective strategy, rate limiting
Gvi_validate ==
    /\ pc = "gvi_286"
    /\ LET video_id == _validate_video_id(gvi.video_input) IN
       IF ~Truthy(video_id)
       THEN /\ GviReturn(None)
            /\ Log(<<ValidateEv(286)>>)
       ELSE /\ gvi' = [gvi EXCEPT !.video_id = video_id,
                                  !.use_strategy = UseStrategy(gvi.strategy)]
            /\ Log(<<ValidateEv(286)>> \o RateLimit)
            /\ pc' = "gvi_299"
            /\ UNCHANGED <<batch, ret>>
    /\ UNCHANGED <<Flags, Outside, self, retry, call, exc>>

\* AutoStrategies testing the import flag, not the service handle: C9 must detect it
AutoStrategies_ByImportFlag ==
    (IF GOOGLE_API_AVAILABLE THEN <<API>> ELSE <<>>)
    \o (IF YT_DLP_AVAILABLE THEN <<YT_DLP>> ELSE <<>>)
    \o (IF PYTUBEFIX_AVAILABLE THEN <<PYTUBEFIX>> ELSE <<>>)

\* AutoStrategies with yt_dlp ranked before api: C1 must detect it
AutoStrategies_Reordered ==
    (IF YT_DLP_AVAILABLE THEN <<YT_DLP>> ELSE <<>>)
    \o (IF Truthy(self.youtube_service) THEN <<API>> ELSE <<>>)
    \o (IF PYTUBEFIX_AVAILABLE THEN <<PYTUBEFIX>> ELSE <<>>)

\* lines 301-308: the candidates of "auto"
AutoStrategies ==
    (IF Truthy(self.youtube_service) THEN <<API>> ELSE <<>>)
    \o (IF YT_DLP_AVAILABLE THEN <<YT_DLP>> ELSE <<>>)
    \o (IF PYTUBEFIX_AVAILABLE THEN <<PYTUBEFIX>> ELSE <<>>)

\* get_video_info calls _extract_with_retry(video_id, strategy)
GviCallsRetry(strategy) ==
    /\ retry' = RetryFrame("get_video_info", gvi.video_id, strategy)
    /\ Log(<<RetryEv(strategy)>>)
    /\ pc' = "retry_346"

\* lines 297-324, up to the first _extract_with_retry call
Gvi_dispatch ==
    /\ pc = "gvi_299"
    /\ IF gvi.use_strategy = AUTO
       THEN IF AutoStrategies = <<>>
            THEN \* lines 310-314
                 /\ GviReturn(None)
                 /\ UNCHANGED <<retry, trace>>
            ELSE /\ gvi' = [gvi EXCEPT !.strategies = AutoStrategies, !.k = 1]
                 /\ GviCallsRetry(AutoStrategies[1])
                 /\ UNCHANGED <<batch, ret>>
       ELSE \* line 324
            /\ GviCallsRetry(gvi.use_strategy)
            /\ UNCHANGED <<gvi, batch, ret>>
    /\ UNCHANGED <<Flags, Outside, self, call, exc>>

\* TryNext giving up after the first candidate: C27 must detect it
TryNext_FirstOnly(result, k, strategies) == FALSE

\* the loop of lines 316-320 goes on to the next candidate
TryNext(result, k, strategies) == ~Truthy(result) /\ k < Len(strategies)

\* lines 319-320 and 326-333: after _extract_with_retry has returned
Gvi_result ==
    /\ pc = "gvi_319"
    /\ IF gvi.use_strategy = AUTO /\ TryNext(gvi.result, gvi.k, gvi.strategies)
       THEN /\ gvi' = [gvi EXCEPT !.k = @ + 1]
            /\ GviCallsRetry(gvi.strategies[gvi.k + 1])
            /\ UNCHANGED <<batch, ret>>
       ELSE /\ GviReturn(IF Truthy(gvi.result) THEN gvi.result ELSE None)
            /\ UNCHANGED <<retry, trace>>
    /\ UNCHANGED <<Flags, Outside, self, call, exc>>

(***************************************************************************)
(* The file system (utils.py, cli.py).  A path holds nothing, the lines of *)
(* a text file, or the document an exporter wrote.                         *)
(***************************************************************************)
Absent == [t |-> "absent"]

TextFile(lines) == [t |-> "text", lines |-> lines]

\* str(output_dir / name), cli.py:260-268
PathJoin(dir, name) == dir \o "/" \o name

\* the value of a path option that is not given (argparse's None)
NotGiven == ""

\* a path open(path, "w") succeeds on
OUT_FILE == "out"

\* a path open(path, "w") raises OSError on
INVALID_PATH == "/invalid/path/file"

\* a directory that exists or can be made, and one whose files cannot be written
OUTPUT_DIR == "output"

LOCKED_DIR == "locked"

BATCH_JSON == "batch_results.json"

BATCH_CSV == "batch_results.csv"

\* a file of identifiers, an empty one, and a path with no file
IDS_FILE == "video_ids.txt"

EMPTY_FILE == "empty.txt"

MISSING_FILE == "missing.txt"

Paths ==
    {OUT_FILE, INVALID_PATH, IDS_FILE, EMPTY_FILE, MISSING_FILE}
    \cup {PathJoin(d, n) : d \in {OUTPUT_DIR, LOCKED_DIR}, n \in {BATCH_JSON, BATCH_CSV}}

\* open(path, "w") raises OSError, or TypeError when there is no path
Unwritable(path) ==
    path \in {NotGiven, INVALID_PATH, PathJoin(LOCKED_DIR, BATCH_JSON),
              PathJoin(LOCKED_DIR, BATCH_CSV)}

\* the lines of IDS_FILE as readlines() gives them: an identifier, a blank
\* line, and a line that is no identifier
IdsLines ==
    << Str(<<" ">> \o V1.s \o <<"\n">>), Str(<<" ", "\n">>), Str(Invalid1.s \o <<"\n">>) >>

\* the files there are before anything is written
InitFiles ==
    [p \in Paths |-> IF p = IDS_FILE THEN TextFile(IdsLines)
                     ELSE IF p = EMPTY_FILE THEN TextFile(<<>>)
                     ELSE Absent]

(***************************************************************************)
(* A second instance.  What an instance and the thread driving it own: the *)
(* attributes of self, the frames of its running calls and its history.    *)
(***************************************************************************)
Owned(id, own_self, own_pc, own_frames, own_history) ==
    [id |-> id, self |-> own_self, pc |-> own_pc, frames |-> own_frames,
     history |-> own_history]

\* the second instance before its construction
NotConstructed ==
    Owned("B", None, "idle", <<None, None, None>>, <<[op |-> ""], <<>>, None, None, None>>)

(***************************************************************************)
(* The specification of the single-call operations.                        *)
(***************************************************************************)
Init ==
    /\ GOOGLE_API_AVAILABLE \in BOOLEAN
    /\ YT_DLP_AVAILABLE \in BOOLEAN
    /\ PYTUBEFIX_AVAILABLE \in BOOLEAN
    /\ self = None
    /\ pc = "idle"
    /\ batch = None
    /\ gvi = None
    /\ retry = None
    /\ call = [op |-> ""]
    /\ trace = <<>>
    /\ ret = None
    /\ exc = None
    /\ at_construction = None
    /\ fs = InitFiles
    /\ cli = None
    /\ other = NotConstructed

Construct ==
    \E api_key \in ApiKeys, environ_key \in {None, Str(<<"E">>)}, build_ok \in BOOLEAN,
       strategy \in InitStrategies, max_retries \in 0..MaxRetries,
       backoff_factor \in BackoffFactors, rate_limit_delay \in RateLimitDelays :
        __init__(api_key, environ_key, build_ok, strategy, max_retries, backoff_factor,
                 rate_limit_delay)

CallGetVideoInfo ==
    \E video_input \in VideoInputs, strategy \in StrategyArgs :
        Call_get_video_info(video_input, strategy)

CallExtractWithRetry ==
    \E strategy \in RetryStrategies : Call_extract_with_retry(V1, strategy)

Next ==
    \/ Construct
    \/ get_available_strategies
    \/ CallGetVideoInfo
    \/ CallExtractWithRetry
    \/ Gvi_validate
    \/ Gvi_dispatch
    \/ Gvi_result
    \/ Retry_attempt
    \/ Retry_backoff

Spec == Init /\ [][Next]_vars

(***************************************************************************)
(* batch_extract, extractor.py:409-448.                                    *)
(***************************************************************************)
Call_batch_extract(video_inputs, strategy, delay_between_requests) ==
    /\ pc = "idle"
    /\ self # None
    /\ Enter([op |-> "batch_extract", video_inputs |-> video_inputs, strategy |-> strategy,
              delay_between_requests |-> delay_between_requests])
    /\ trace' = <<>>
    /\ batch' = BatchFrame("top", video_inputs, strategy, delay_between_requests)
    /\ pc' = "batch_428"
    /\ UNCHANGED <<Flags, Outside, self, gvi, retry>>

\* lines 428-431 and 448: the loop head; i counts from 0 as enumerate does
Batch_next ==
    /\ pc = "batch_428"
    /\ IF batch.i < Len(batch.video_inputs)
       THEN /\ gvi' = GviFrame("batch_extract", batch.video_inputs[batch.i + 1],
                               batch.strategy)
            /\ pc' = "gvi_286"
            /\ UNCHANGED <<batch, ret>>
       ELSE /\ ret' = List(batch.results)
            /\ batch' = None
            /\ pc' = (IF batch.caller = "main" THEN "cli_253" ELSE "idle")
            /\ gvi' = gvi
    /\ UNCHANGED <<Flags, Outside, self, retry, call, trace, exc>>

\* the dict of lines 437-441
FailureRecord(video_input) ==
    [t |-> "dict", video_id |-> _validate_video_id(video_input),
     error |-> EXTRACTION_FAILED, extraction_method |-> None]

\* Appended dropping a failed item: C4 must detect it
Appended_SkipFailed(results, result, video_input) ==
    IF Truthy(result) THEN Append(results, result) ELSE results

\* lines 432-442: results after the item's element is appended
Appended(results, result, video_input) ==
    IF Truthy(result) THEN Append(results, result)
    ELSE Append(results, FailureRecord(video_input))

\* DelayDue also after the last item: C8 must detect it
DelayDue_AfterLast(i, video_inputs) == i <= Len(video_inputs) - 1

\* the condition of line 445
DelayDue(i, video_inputs) == i < Len(video_inputs) - 1

\* lines 432-446: the item's element of the result, then the delay
Batch_append ==
    /\ pc = "batch_432"
    /\ LET video_input == batch.video_inputs[batch.i + 1]
           failed == ~Truthy(batch.result)
       IN  /\ batch' = [batch EXCEPT !.results = Appended(@, batch.result, video_input),
                                     !.i = @ + 1, !.result = None]
           /\ Log((IF failed THEN <<ValidateEv(438)>> ELSE <<>>)
                  \o (IF DelayDue(batch.i, batch.video_inputs)
                      THEN <<SleepEv(446, batch.delay_between_requests)>>
                      ELSE <<>>))
    /\ pc' = "batch_428"
    /\ UNCHANGED <<Flags, Outside, self, gvi, retry, call, ret, exc>>

(***************************************************************************)
(* The specification of the batch driver: instances of a narrower          *)
(* configuration, given lists of at most MaxBatchLen inputs.               *)
(***************************************************************************)
BatchInputs == {V1, V2, Invalid1}

BatchStrategyArgs == {None, API}

BatchDelays == {7}

BatchInitStrategies == {AUTO, YT_DLP}

BatchRetries == {1, 2}

RECURSIVE SeqsUpTo(_, _)
\* the sequences over S of length at most n
SeqsUpTo(S, n) ==
    IF n = 0 THEN {<<>>}
    ELSE LET shorter == SeqsUpTo(S, n - 1)
         IN  shorter \cup {Append(q, x) : q \in shorter, x \in S}

ConstructBatch ==
    \E api_key \in {None, Str(<<"K">>)}, strategy \in BatchInitStrategies,
       max_retries \in BatchRetries :
        __init__(api_key, None, TRUE, strategy, max_retries, 2, 5)

CallBatchExtract ==
    \E video_inputs \in SeqsUpTo(BatchInputs, MaxBatchLen),
       strategy \in BatchStrategyArgs, delay_between_requests \in BatchDelays :
        Call_batch_extract(video_inputs, strategy, delay_between_requests)

NextBatch ==
    \/ ConstructBatch
    \/ CallBatchExtract
    \/ Batch_next
    \/ Batch_append
    \/ Gvi_validate
    \/ Gvi_dispatch
    \/ Gvi_result
    \/ Retry_attempt
    \/ Retry_backoff

SpecBatch == Init /\ [][NextBatch]_vars

(***************************************************************************)
(* export_to_json and export_to_csv, utils.py:115-195.  What a written     *)
(* file holds is a document: the data json.dump serialised, or the header  *)
(* and the rows the csv writer was given.                                  *)
(***************************************************************************)
\* fieldnames, utils.py:161-168
fieldnames ==
    <<"title", "channel_name", "views", "publication_date", "description",
      "extraction_method">>

RECURSIVE IntToStr(_)
\* the decimal digits of a natural number
IntToStr(n) ==
    IF n < 10 THEN <<Digits[n + 1]>>
    ELSE IntToStr(n \div 10) \o <<Digits[(n % 10) + 1]>>

\* str(value) for a value that is neither None nor a str
PyStr(value) ==
    CASE value.t = "int" -> Str(IntToStr(value.n))
      [] value.t = "bool" -> Str(IF value.b THEN <<"T","r","u","e">>
                                           ELSE <<"F","a","l","s","e">>)
      [] OTHER -> Str(<<"<","o","b","j","e","c","t",">">>)

\* value.replace(old, new) for one-character old and new
Replace(value, old, new) ==
    Str([i \in DOMAIN value.s |-> IF value.s[i] = old THEN new ELSE value.s[i]])

\* video.get(field, default)
Get(video, field, default) == IF field \in DOMAIN video THEN video[field] ELSE default

\* CsvValue leaving carriage returns in place: C18 must detect it
CsvValue_KeepCR(value) ==
    IF value = None THEN EmptyStr
    ELSE IF value.t = "str" THEN Replace(value, "\n", " ")
    ELSE PyStr(value)

\* lines 180-186: the cell written for a value
CsvValue(value) ==
    IF value = None THEN EmptyStr
    ELSE IF value.t = "str" THEN Replace(Replace(value, "\n", " "), "\r", " ")
    ELSE PyStr(value)

\* lines 176-188: the row written for a record
CsvRow(video) ==
    [i \in DOMAIN fieldnames |-> CsvValue(Get(video, fieldnames[i], EmptyStr))]

CsvDoc(rows) == [t |-> "csv", header |-> fieldnames, rows |-> rows]

\* the elements video.get() raises AttributeError on
NotDicts(videos) == {i \in DOMAIN videos : videos[i].t # "dict"}

\* the number of rows written before the loop of line 174 ends or raises
RowsWritten(videos) ==
    IF NotDicts(videos) = {} THEN Len(videos)
    ELSE (CHOOSE i \in NotDicts(videos) : \A j \in NotDicts(videos) : i <= j) - 1

\* ExportToCsv without the test of line 155: C17 must detect it
ExportToCsv_NoEmptyCheck(files, video_data, output_file) ==
    IF Unwritable(output_file) THEN [fs |-> files, ret |-> PyFalse]
    ELSE LET videos == IF video_data = None THEN <<>> ELSE video_data.v IN
         [fs |-> [files EXCEPT ![output_file] =
                     CsvDoc([i \in 1..RowsWritten(videos) |-> CsvRow(videos[i])])],
          ret |-> PyBool(NotDicts(videos) = {})]

\* export_to_csv: the files it leaves and the value it returns
ExportToCsv(files, video_data, output_file) ==
    IF ~Truthy(video_data) THEN [fs |-> files, ret |-> PyFalse]
    ELSE IF Unwritable(output_file) THEN [fs |-> files, ret |-> PyFalse]
    ELSE LET videos == video_data.v IN
         [fs |-> [files EXCEPT ![output_file] =
                     CsvDoc([i \in 1..RowsWritten(videos) |-> CsvRow(videos[i])])],
          ret |-> PyBool(NotDicts(videos) = {})]

RECURSIVE JsonSerializable(_)
\* json.dump raises TypeError for a value that is no dict, list, str, int,
\* bool or None
JsonSerializable(v) ==
    CASE v.t \in {"None", "str", "int", "bool"} -> TRUE
      [] v.t = "list" -> \A i \in DOMAIN v.v : JsonSerializable(v.v[i])
      [] v.t = "dict" -> \A k \in DOMAIN v \ {"t"} : JsonSerializable(v[k])
      [] OTHER -> FALSE

\* what json.dump(data, f, indent=indent) leaves in f; when it raises, the
\* document is cut short
JsonDoc(data, indent, complete) ==
    [t |-> "json", data |-> data, indent |-> indent, complete |-> complete]

\* export_to_json: the files it leaves and the value it returns
ExportToJson(files, video_data, output_file, pretty) ==
    IF Unwritable(output_file) THEN [fs |-> files, ret |-> PyFalse]
    ELSE [fs |-> [files EXCEPT ![output_file] =
                     JsonDoc(video_data, IF pretty THEN PyInt(2) ELSE None,
                             JsonSerializable(video_data))],
          ret |-> PyBool(JsonSerializable(video_data))]

export_to_json(video_data, output_file, pretty) ==
    /\ pc = "idle"
    /\ call' = [op |-> "export_to_json", video_data |-> video_data,
                output_file |-> output_file, pretty |-> pretty]
    /\ trace' = <<>>
    /\ exc' = None
    /\ fs' = ExportToJson(fs, video_data, output_file, pretty).fs
    /\ ret' = ExportToJson(fs, video_data, output_file, pretty).ret
    /\ UNCHANGED <<Flags, at_construction, cli, other, self, pc, batch, gvi, retry>>

export_to_csv(video_data, output_file) ==
    /\ pc = "idle"
    /\ call' = [op |-> "export_to_csv", video_data |-> video_data,
                output_file |-> output_file]
    /\ trace' = <<>>
    /\ exc' = None
    /\ fs' = ExportToCsv(fs, video_data, output_file).fs
    /\ ret' = ExportToCsv(fs, video_data, output_file).ret
    /\ UNCHANGED <<Flags, at_construction, cli, other, self, pc, batch, gvi, retry>>

(***************************************************************************)
(* The specification of the exporters: they are called, one call after     *)
(* another, with records and lists of at most MaxRows elements.            *)
(***************************************************************************)
\* a description with a carriage return and a newline in it
DescriptionCrLf == Str(<<"a", "\r", "\n", "b", "\n">>)

\* a record as the API adapter makes it
RecordFull ==
    VideoInfo(SrcTitle(V1), DescriptionCrLf, SrcChannel, SrcPublishedAt, PyInt(1000),
              YOUTUBE_API)

\* {"title": "Test"}
RecordTitleOnly == [t |-> "dict", title |-> Str(<<"T", "e", "s", "t">>)]

\* a record holding a value json.dump cannot serialise
RecordWithObject ==
    VideoInfo(SrcTitle(V1), None, SrcChannel, Object, PyInt(0), PYTUBEFIX)

ExportRecords == {RecordFull, FailureRecord(Invalid1), RecordWithObject}

\* the lists the exporters are given: records, and an element that is no dict
ExportLists == {List(q) : q \in SeqsUpTo(ExportRecords \cup {PyInt(7)}, MaxRows)}

ExportToJsonCall ==
    \/ \E video_data \in ExportLists \cup ExportRecords, pretty \in BOOLEAN :
          export_to_json(video_data, OUT_FILE, pretty)
    \/ export_to_json(RecordTitleOnly, INVALID_PATH, TRUE)

ExportToCsvCall ==
    \/ \E video_data \in ExportLists \cup {None} : export_to_csv(video_data, OUT_FILE)
    \/ \E video_data \in {List(<<>>), List(<<RecordTitleOnly>>)} :
          export_to_csv(video_data, INVALID_PATH)

NextExport ==
    \/ ExportToJsonCall
    \/ ExportToCsvCall

\* the exporters read no module global: the three libraries are installed
InitExport ==
    /\ Init
    /\ GOOGLE_API_AVAILABLE
    /\ YT_DLP_AVAILABLE
    /\ PYTUBEFIX_AVAILABLE

SpecExport == InitExport /\ [][NextExport]_vars

(***************************************************************************)
(* load_video_ids_from_file, utils.py:198-222.                             *)
(***************************************************************************)
\* the characters str.strip() removes
Whitespace == {" ", "\t", "\n", "\r"}

RECURSIVE LStrip(_)
LStrip(s) == IF s # <<>> /\ s[1] \in Whitespace THEN LStrip(Tail(s)) ELSE s

RECURSIVE RStrip(_)
RStrip(s) ==
    IF s # <<>> /\ s[Len(s)] \in Whitespace THEN RStrip(SubSeq(s, 1, Len(s) - 1)) ELSE s

\* line.strip()
Strip(line) == Str(LStrip(RStrip(line.s)))

NonBlank(line) == Truthy(Strip(line))

\* the stripped non-blank lines of the file; the empty list when open() raises
load_video_ids_from_file(files, file_path) ==
    IF files[file_path].t # "text" THEN <<>>
    ELSE LET kept == SelectSeq(files[file_path].lines, NonBlank)
         IN  [i \in DOMAIN kept |-> Strip(kept[i])]

(***************************************************************************)
(* main, cli.py:70-310.  args is the namespace parse_args() returns; what  *)
(* main prints is left out.  main runs once, as the process's entry point: *)
(* ret is the exit code it returns, exc the SystemExit parser.error()      *)
(* raises.                                                                 *)
(***************************************************************************)
SystemExit(code) == [t |-> "exception", type |-> "SystemExit", code |-> code]

\* test_api_key, extractor.py:390-407, given what request.execute() does
test_api_key(outcome) ==
    IF ~Truthy(self.youtube_service) THEN FALSE
    ELSE IF outcome.kind = "raise" THEN FALSE
    ELSE Len(outcome.value.items.v) > 0

\* ParserError without the test of line 201: C20 must detect it
ParserError_InputOnly(args) == args.batch = NotGiven /\ ~Truthy(args.video_input)

\* the conditions of lines 198 and 201: parser.error() is called
ParserError(args) ==
    \/ args.batch = NotGiven /\ ~Truthy(args.video_input)
    \/ args.format \in {"json", "csv"} /\ args.output = NotGiven /\ args.batch = NotGiven

\* main returns code
MainReturn(code) ==
    /\ ret' = PyInt(code)
    /\ exc' = None
    /\ pc' = "idle"
    /\ cli' = None

\* lines 159-177: the arguments are parsed and the extractor is made
Call_main(args, environ_key, build_ok) ==
    /\ pc = "idle"
    /\ call.op = ""
    /\ self = None
    /\ call' = [op |-> "main", args |-> args]
    /\ trace' = <<>>
    /\ IF InitRaises(args.strategy) # None
       THEN \* lines 175-177
            /\ MainReturn(1)
            /\ UNCHANGED <<self, at_construction>>
       ELSE /\ self' = Instance(args.api_key, environ_key, build_ok, args.strategy,
                                args.retries, 2, 5)
            /\ at_construction' = Flags
            /\ cli' = [args |-> args]
            /\ pc' = "cli_180"
            /\ UNCHANGED <<ret, exc>>
    /\ UNCHANGED <<Flags, fs, other, batch, gvi, retry>>

\* lines 179-208 and 241-251: the info commands, the validation of the
\* arguments, and the call of get_video_info or batch_extract
Main_commands ==
    /\ pc = "cli_180"
    /\ LET args == cli.args IN
       IF args.test_api
       THEN \E outcome \in ApiOutcomes(V1) :
               /\ MainReturn(IF test_api_key(outcome) THEN 0 ELSE 1)
               /\ UNCHANGED <<batch, gvi>>
       ELSE IF args.list_strategies
       THEN /\ MainReturn(0)
            /\ UNCHANGED <<batch, gvi>>
       ELSE IF ParserError(args)
       THEN /\ exc' = SystemExit(2)
            /\ pc' = "idle"
            /\ cli' = None
            /\ UNCHANGED <<ret, batch, gvi>>
       ELSE IF Truthy(args.video_input)
       THEN \* line 208
            /\ gvi' = GviFrame("main", args.video_input, None)
            /\ pc' = "gvi_286"
            /\ UNCHANGED <<ret, exc, cli, batch>>
       ELSE LET video_ids == load_video_ids_from_file(fs, args.batch) IN
            IF video_ids = <<>>
            THEN \* lines 245-247
                 /\ MainReturn(1)
                 /\ UNCHANGED <<batch, gvi>>
            ELSE \* line 251
                 /\ batch' = BatchFrame("main", video_ids, args.strategy, args.delay)
                 /\ pc' = "batch_428"
                 /\ UNCHANGED <<ret, exc, cli, gvi>>
    /\ UNCHANGED <<Flags, at_construction, fs, other, self, retry, call, trace>>

\* lines 210-238 and 310: get_video_info has returned
Main_single ==
    /\ pc = "cli_210"
    /\ LET args == cli.args
           video_info == ret
       IN  IF ~Truthy(video_info)
           THEN MainReturn(1) /\ fs' = fs
           ELSE IF args.format = "json" /\ args.output # NotGiven
           THEN LET exported == ExportToJson(fs, video_info, args.output, args.pretty)
                IN  /\ fs' = exported.fs
                    /\ MainReturn(IF Truthy(exported.ret) THEN 0 ELSE 1)
           ELSE IF args.format = "csv"
           THEN LET exported == ExportToCsv(fs, List(<<video_info>>), args.output)
                IN  /\ fs' = exported.fs
                    /\ MainReturn(IF Truthy(exported.ret) THEN 0 ELSE 1)
           ELSE \* the record is printed
                MainReturn(0) /\ fs' = fs
    /\ UNCHANGED <<Flags, at_construction, other, self, batch, gvi, retry, call, trace>>

\* lines 254-272: the files main leaves when --output-dir is given
BatchExported(files, args, results) ==
    IF args.output_dir = NotGiven THEN files
    ELSE IF args.format = "json"
    THEN ExportToJson(files, results, PathJoin(args.output_dir, BATCH_JSON), args.pretty).fs
    ELSE IF args.format = "csv"
    THEN ExportToCsv(files, results, PathJoin(args.output_dir, BATCH_CSV)).fs
    ELSE ExportToCsv(
            ExportToJson(files, results, PathJoin(args.output_dir, BATCH_JSON), TRUE).fs,
            results, PathJoin(args.output_dir, BATCH_CSV)).fs

\* lines 253-310: batch_extract has returned
Main_batch ==
    /\ pc = "cli_253"
    /\ fs' = BatchExported(fs, cli.args, ret)
    /\ MainReturn(0)
    /\ UNCHANGED <<Flags, at_construction, other, self, batch, gvi, retry, call, trace>>

(***************************************************************************)
(* The specification of the command line: one run of main.                 *)
(***************************************************************************)
CallMain ==
    /\ pc = "idle"
    /\ call.op = ""
    /\ \E video_input \in {None, V1, Invalid1}, api_key \in {None, Str(<<"K">>)},
          strategy \in {AUTO, YT_DLP}, format \in {"text", "json", "csv"},
          output \in {NotGiven, OUT_FILE, INVALID_PATH}, pretty \in BOOLEAN,
          batch_file \in {NotGiven, IDS_FILE, EMPTY_FILE, MISSING_FILE},
          output_dir \in {NotGiven, OUTPUT_DIR, LOCKED_DIR},
          test_api \in BOOLEAN, list_strategies \in BOOLEAN :
         Call_main([video_input |-> video_input, api_key |-> api_key,
                    strategy |-> strategy, format |-> format, output |-> output,
                    pretty |-> pretty, batch |-> batch_file, output_dir |-> output_dir,
                    delay |-> 7, test_api |-> test_api,
                    list_strategies |-> list_strategies, retries |-> 1],
                   None, TRUE)

NextCli ==
    \/ CallMain
    \/ Main_commands
    \/ Main_single
    \/ Main_batch
    \/ Batch_next
    \/ Batch_append
    \/ Gvi_validate
    \/ Gvi_dispatch
    \/ Gvi_result
    \/ Retry_attempt
    \/ Retry_backoff

\* the API client is installed and pytubefix is not; yt_dlp may be either
InitCli ==
    /\ Init
    /\ GOOGLE_API_AVAILABLE
    /\ ~PYTUBEFIX_AVAILABLE

SpecCli == InitCli /\ [][NextCli]_vars

(***************************************************************************)
(* The specification of the identifier validator: an instance is made and  *)
(* _validate_video_id is called on it with bare identifiers, the URL forms *)
(* of the test suite, and identifiers with one character replaced, one     *)
(* dropped or one added.                                                   *)
(***************************************************************************)
\* an identifier with both punctuation characters of the class
V3 == Str(<<"-","_","a","Z","0","9","-","_","b","Y","1">>)

ValidIds == {V1, V2, V3}

HTTPS_WWW_YOUTUBE_COM ==
    <<"h","t","t","p","s",":","/","/","w","w","w",".","y","o","u","t","u","b","e",".","c","o","m">>

\* "https://www.youtube.com/watch?v=<id>"
UrlWatch(x) == Str(HTTPS_WWW_YOUTUBE_COM \o <<"/","w","a","t","c","h","?","v","=">> \o x.s)

\* "https://youtube.com/watch?v=<id>&t=10s"
UrlWatchAmp(x) ==
    Str(<<"h","t","t","p","s",":","/","/","y","o","u","t","u","b","e",".","c","o","m">>
        \o <<"/","w","a","t","c","h","?","v","=">> \o x.s \o <<"&","t","=","1","0","s">>)

\* "https://youtu.be/<id>"
UrlShort(x) ==
    Str(<<"h","t","t","p","s",":","/","/","y","o","u","t","u",".","b","e","/">> \o x.s)

\* "https://www.youtube.com/embed/<id>"
UrlEmbed(x) == Str(HTTPS_WWW_YOUTUBE_COM \o <<"/","e","m","b","e","d","/">> \o x.s)

UrlForms(x) == {UrlWatch(x), UrlWatchAmp(x), UrlShort(x), UrlEmbed(x)}

\* characters put in place of one character of an identifier
ReplacementChars == {"!", " ", "=", "/", "\n", "_", "-", "Z", "0"}

\* the first, a middle and the last position of an identifier
EditPositions == {1, 6, 11}

Replaced(x, p, c) == Str([x.s EXCEPT ![p] = c])

Dropped(x, p) == Str(SubSeq(x.s, 1, p - 1) \o SubSeq(x.s, p + 1, Len(x.s)))

Added(x, c) == Str(Append(x.s, c))

ValidatorInputs ==
    ValidIds \cup {Invalid1, Invalid2, EmptyStr}
    \cup UNION {UrlForms(x) : x \in ValidIds}
    \cup {Replaced(x, p, c) : x \in ValidIds, p \in EditPositions, c \in ReplacementChars}
    \cup {Dropped(x, p) : x \in ValidIds, p \in EditPositions}
    \cup {Added(x, c) : x \in ValidIds, c \in ReplacementChars}

Call_validate_video_id(video_id) ==
    /\ pc = "idle"
    /\ self # None
    /\ call' = [op |-> "_validate_video_id", video_id |-> video_id]
    /\ trace' = <<>>
    /\ exc' = None
    /\ ret' = _validate_video_id(video_id)
    /\ UNCHANGED <<Flags, Outside, self, pc, batch, gvi, retry>>

CallValidateVideoId == \E video_id \in ValidatorInputs : Call_validate_video_id(video_id)

\* YouTubeVideoInfoExtractor() and YouTubeVideoInfoExtractor(api_key="K")
ConstructDefault ==
    \E api_key \in {None, Str(<<"K">>)} : __init__(api_key, None, TRUE, AUTO, 1, 2, 5)

NextValidator ==
    \/ ConstructDefault
    \/ CallValidateVideoId

SpecValidator == Init /\ [][NextValidator]_vars

(***************************************************************************)
(* Vocabulary of the properties.                                           *)
(***************************************************************************)
IsAdapterEv(e) == e.ev = "adapter"

IsSuccessEv(e) == e.ev = "adapter" /\ e.result # None

IsRetryEv(e) == e.ev = "retry"

IsSleepEv(e) == e.ev = "sleep"

IsSleepAt(e, line) == e.ev = "sleep" /\ e.line = line

IsValidateAt(e, line) == e.ev = "validate" /\ e.line = line

\* the positions of the trace whose event satisfies P
Positions(P(_)) == {i \in DOMAIN trace : P(trace[i])}

Count(P(_)) == Cardinality(Positions(P))

\* the call named op has returned or raised
Completed(op) == pc = "idle" /\ call.op = op

\* an identifier as the data model defines it: eleven characters of [A-Za-z0-9_-]
IsIdentifier(v) ==
    /\ Len(v.s) = 11
    /\ \A i \in DOMAIN v.s :
          \/ v.s[i] \in Range(UpperCase) \cup Range(LowerCase) \cup Range(Digits)
          \/ v.s[i] \in {"_", "-"}

\* the priority of an adapter under "auto"
Rank(fn) ==
    CASE fn = "_get_video_info_api" -> 1
      [] fn = "_get_video_info_yt_dlp" -> 2
      [] fn = "_get_video_info_pytubefix" -> 3

AdapterNames ==
    {"_get_video_info_api", "_get_video_info_yt_dlp", "_get_video_info_pytubefix"}

\* the adapter is available to this instance
IsAvailable(fn) ==
    CASE fn = "_get_video_info_api" -> self.youtube_service # None
      [] fn = "_get_video_info_yt_dlp" -> YT_DLP_AVAILABLE
      [] fn = "_get_video_info_pytubefix" -> PYTUBEFIX_AVAILABLE

\* the number of invocations of adapter fn in the trace
Invocations(fn) == Cardinality({i \in Positions(IsAdapterEv) : trace[i].fn = fn})

\* a get_video_info call for a valid identifier is running or over, and its
\* effective strategy is "auto"
AutoCall ==
    /\ call.op = "get_video_info"
    /\ IsIdentifier(call.video_input)
    /\ \/ call.strategy = AUTO
       \/ call.strategy \in {None, EmptyStr} /\ self.strategy = AUTO

(***************************************************************************)
(* C1: under the effective strategy "auto", get_video_info invokes only    *)
(* available adapters, in the order api, yt_dlp, pytubefix; a successful   *)
(* invocation is the last one of the call; an adapter is first invoked     *)
(* only after every available adapter before it has failed max_retries     *)
(* times; and the call returns the record of the successful invocation,    *)
(* None when there is none.                                                *)
(***************************************************************************)
C1_AutoPriorityOrder ==
    AutoCall =>
      /\ \A i \in Positions(IsAdapterEv) :
            /\ IsAvailable(trace[i].fn)
            /\ \A j \in Positions(IsAdapterEv) :
                  i < j => /\ Rank(trace[i].fn) <= Rank(trace[j].fn)
                           /\ trace[i].result = None
            /\ \A fn \in AdapterNames :
                  IsAvailable(fn) /\ Rank(fn) < Rank(trace[i].fn)
                     => Invocations(fn) = self.max_retries
      /\ pc = "idle" =>
            IF Positions(IsSuccessEv) # {}
            THEN \A i \in Positions(IsSuccessEv) : ret = trace[i].result
            ELSE /\ ret = None
                 /\ \A fn \in AdapterNames :
                       IsAvailable(fn) => Invocations(fn) = self.max_retries

\* api failed on all its attempts, then yt_dlp succeeded, with pytubefix available
C1_Witness ==
    /\ AutoCall
    /\ pc = "idle"
    /\ ret # None
    /\ ret.extraction_method = YT_DLP
    /\ Invocations("_get_video_info_api") >= 2
    /\ PYTUBEFIX_AVAILABLE

(***************************************************************************)
(* C2: a direct _extract_with_retry call with a known strategy and         *)
(* max_retries = N >= 1 whose adapter fails on every attempt invokes the   *)
(* adapter exactly N times, sleeps exactly N-1 times, the sleep after      *)
(* attempt i (from 0) lasting backoff_factor^i, with no sleep after the    *)
(* last attempt; it raises nothing and returns None.                       *)
(***************************************************************************)
C2_AllAttemptsFail ==
    ( /\ Completed("_extract_with_retry")
      /\ call.strategy \in {API, YT_DLP, PYTUBEFIX}
      /\ self.max_retries >= 1
      /\ Positions(IsSuccessEv) = {} )
    => /\ Count(IsAdapterEv) = self.max_retries
       /\ Count(IsSleepEv) = self.max_retries - 1
       /\ Len(trace) = 2 * self.max_retries
       /\ \A i \in 0..(self.max_retries - 1) :
             /\ IsAdapterEv(trace[2 + 2 * i])
             /\ i < self.max_retries - 1 =>
                   /\ IsSleepAt(trace[3 + 2 * i], 368)
                   /\ trace[3 + 2 * i].secs = Pow(self.backoff_factor, i)
       /\ exc = None
       /\ ret = None

\* three failed attempts with backoff factor 2: the sleeps are 1 then 2
C2_Witness ==
    /\ Completed("_extract_with_retry")
    /\ call.strategy = API
    /\ self.max_retries = 3
    /\ self.backoff_factor = 2
    /\ self.youtube_service # None
    /\ ret = None
    /\ Count(IsAdapterEv) = 3
    /\ [i \in 1..2 |-> trace[1 + 2 * i].secs] = <<1, 2>>

\* the adapter a strategy names
StrategyAdapter(strategy) ==
    CASE strategy = API -> "_get_video_info_api"
      [] strategy = YT_DLP -> "_get_video_info_yt_dlp"
      [] strategy = PYTUBEFIX -> "_get_video_info_pytubefix"

\* a get_video_info call for a valid identifier is past its validation
GviRunning ==
    /\ call.op = "get_video_info"
    /\ gvi # None
    /\ gvi.video_id # None

\* with the effective strategy `effective`, a call naming one adapter invokes
\* that adapter only, hands only that strategy to _extract_with_retry, and
\* returns None when every attempt fails
SingleAdapterOnly(effective) ==
    ( /\ call.op = "get_video_info"
      /\ IsIdentifier(call.video_input)
      /\ effective \in {API, YT_DLP, PYTUBEFIX} )
    => /\ \A i \in Positions(IsAdapterEv) : trace[i].fn = StrategyAdapter(effective)
       /\ \A i \in Positions(IsRetryEv) : trace[i].strategy = effective
       /\ Count(IsRetryEv) <= 1
       /\ pc = "idle" =>
             IF Positions(IsSuccessEv) = {}
             THEN ret = None /\ Count(IsAdapterEv) = self.max_retries
             ELSE \A i \in Positions(IsSuccessEv) : ret = trace[i].result

\* the effective strategy as C3 states it: the override when one is given
C3_StatedEffective ==
    IF call.strategy # None THEN call.strategy ELSE self.strategy

\* the effective strategy of line 292: the override when one is given and is
\* not the empty string
C3_Effective ==
    IF call.strategy \notin {None, EmptyStr} THEN call.strategy ELSE self.strategy

(***************************************************************************)
(* C3 as stated: the effective strategy of get_video_info is the override  *)
(* whenever one is given (any value other than None), the default          *)
(* otherwise; and a call whose effective strategy names one adapter        *)
(* invokes only that adapter and returns None when all its attempts fail.  *)
(***************************************************************************)
C3_AsStated ==
    /\ GviRunning => gvi.use_strategy = C3_StatedEffective
    /\ call.op = "get_video_info" => SingleAdapterOnly(C3_StatedEffective)

(***************************************************************************)
(* C3, amended: the effective strategy of get_video_info is the override   *)
(* when one is given and is not the empty string, the instance's default   *)
(* otherwise (an empty-string override falls back to the default); a call  *)
(* whose effective strategy names one adapter invokes only that adapter,   *)
(* and returns None without invoking another when all its attempts fail.   *)
(***************************************************************************)
C3_EffectiveStrategy ==
    /\ GviRunning => gvi.use_strategy = C3_Effective
    /\ call.op = "get_video_info" => SingleAdapterOnly(C3_Effective)

\* the override yt_dlp on an "auto" instance fails on all its attempts while
\* api and pytubefix are available: neither is invoked, None is returned
C3_Witness ==
    /\ Completed("get_video_info")
    /\ call.strategy = YT_DLP
    /\ self.strategy = AUTO
    /\ self.youtube_service # None
    /\ PYTUBEFIX_AVAILABLE
    /\ Invocations("_get_video_info_yt_dlp") = 3
    /\ Invocations("_get_video_info_api") = 0
    /\ Invocations("_get_video_info_pytubefix") = 0
    /\ ret = None

(***************************************************************************)
(* Vocabulary of the batch properties.  The get_video_info call of item i  *)
(* starts at the i-th validation of line 286; the item's events are those  *)
(* from there up to the next item's start.                                 *)
(***************************************************************************)
IsItemStart(e) == IsValidateAt(e, 286)

IsBatchSleep(e) == IsSleepAt(e, 446)

\* the item the event at position p belongs to: the number of item starts up to p
ItemOf(p) == Cardinality({q \in 1..p : IsItemStart(trace[q])})

ItemEvents(i) == {p \in DOMAIN trace : ItemOf(p) = i}

ItemSuccesses(i) == {p \in ItemEvents(i) : IsSuccessEv(trace[p])}

IsFailureRecord(r) ==
    /\ DOMAIN r = {"t", "video_id", "error", "extraction_method"}
    /\ r.error = EXTRACTION_FAILED
    /\ r.extraction_method = None

(***************************************************************************)
(* C4: batch_extract returns a list as long as its input; element i is the *)
(* record the item's get_video_info call extracted (that of input i), or a *)
(* failure record with error "Extraction failed" and extraction_method     *)
(* None when the call extracted nothing; every input is processed, and     *)
(* the result never lags behind the items processed.                       *)
(***************************************************************************)
C4_BatchLengthAndOrder ==
    /\ (call.op = "batch_extract" /\ batch # None) =>
          /\ batch.i <= Len(call.video_inputs)
          /\ Len(batch.results) = batch.i
    /\ Completed("batch_extract") =>
          /\ ret.t = "list"
          /\ Len(ret.v) = Len(call.video_inputs)
          /\ Count(IsItemStart) = Len(call.video_inputs)
          /\ \A i \in 1..Len(call.video_inputs) :
                LET successes == ItemSuccesses(i) IN
                IF successes # {}
                THEN /\ \A p \in successes : ret.v[i] = trace[p].result
                     /\ ret.v[i].title = SrcTitle(call.video_inputs[i])
                ELSE IsFailureRecord(ret.v[i])

\* the first item fails on both attempts of its adapter, the second is extracted
C4_Witness ==
    /\ Completed("batch_extract")
    /\ Len(call.video_inputs) = 2
    /\ IsIdentifier(call.video_inputs[1])
    /\ Cardinality({p \in ItemEvents(1) : IsAdapterEv(trace[p])}) = 2
    /\ IsFailureRecord(ret.v[1])
    /\ ret.v[2].extraction_method = YT_DLP

(***************************************************************************)
(* C5: the failure record of a failed item carries the validated           *)
(* identifier when the input is a valid identifier and the raw input       *)
(* string when the input failed validation: in both cases the input.       *)
(***************************************************************************)
C5_FailureCarriesInput ==
    Completed("batch_extract") =>
       \A i \in 1..Len(ret.v) :
          "error" \in DOMAIN ret.v[i] => ret.v[i].video_id = call.video_inputs[i]

(***************************************************************************)
(* C8: for n inputs batch_extract sleeps delay_between_requests exactly    *)
(* max(n-1, 0) times at line 446: once at the end of every item but the    *)
(* last, never after the last; for the empty list it returns the empty     *)
(* list with no event at all.                                              *)
(***************************************************************************)
C8_InterRequestDelays ==
    Completed("batch_extract") =>
       LET n == Len(call.video_inputs) IN
       /\ Count(IsBatchSleep) = (IF n = 0 THEN 0 ELSE n - 1)
       /\ \A p \in Positions(IsBatchSleep) : trace[p].secs = call.delay_between_requests
       /\ \A i \in 1..n :
             LET events == ItemEvents(i)
                 sleeps == {p \in events : IsBatchSleep(trace[p])}
             IN  IF i < n
                 THEN /\ Cardinality(sleeps) = 1
                      /\ \A p \in sleeps : \A q \in events : q <= p
                 ELSE sleeps = {}
       /\ n = 0 => ret = List(<<>>) /\ trace = <<>>

\* two items, the first retried with a backoff sleep: one inter-request sleep,
\* after the first item's events and before the second item's validation
C8_Witness ==
    /\ Completed("batch_extract")
    /\ Len(call.video_inputs) = 2
    /\ Count(IsBatchSleep) = 1
    /\ \E p \in ItemEvents(1) : IsSleepAt(trace[p], 368)
    /\ \E p \in ItemEvents(2) : IsAdapterEv(trace[p])

IsRateLimitSleep(e) == IsSleepAt(e, 295)

\* no adapter is available to the instance
NoneAvailable ==
    /\ self.youtube_service = None
    /\ ~YT_DLP_AVAILABLE
    /\ ~PYTUBEFIX_AVAILABLE

(***************************************************************************)
(* C6: get_video_info given an input that is not a valid identifier does   *)
(* nothing but validate it: no sleep, no _extract_with_retry call, no      *)
(* adapter invocation, no exception, and the value returned is None.       *)
(***************************************************************************)
C6_InvalidInputReturnsAtOnce ==
    (call.op = "get_video_info" /\ ~IsIdentifier(call.video_input)) =>
       /\ pc \in {"gvi_286", "idle"}
       /\ Len(trace) <= 1
       /\ \A i \in DOMAIN trace : IsValidateAt(trace[i], 286)
       /\ retry = None
       /\ exc = None
       /\ ret = None

\* eleven characters, the last outside the alphabet: validated, None returned
C6_Witness ==
    /\ Completed("get_video_info")
    /\ call.video_input = Invalid2
    /\ trace = <<ValidateEv(286)>>
    /\ ret = None

C9_NoAdapterAvailable ==
    /\ (AutoCall /\ NoneAvailable) =>
          /\ Count(IsAdapterEv) = 0
          /\ Count(IsRetryEv) = 0
          /\ retry = None
          /\ exc = None
          /\ ret = None
    /\ (Completed("get_available_strategies") /\ NoneAvailable) => ret = List(<<>>)

\* the client library is importable but no service was built: still no candidate
C9_Witness ==
    /\ Completed("get_video_info")
    /\ AutoCall
    /\ NoneAvailable
    /\ GOOGLE_API_AVAILABLE
    /\ self.max_retries > 0
    /\ ret = None

(***************************************************************************)
(* C10: __init__ given a strategy that, lower-cased, is not one of auto,   *)
(* api, yt_dlp, pytubefix raises ValueError and yields no instance; every  *)
(* instance that exists has one of the four as its strategy, the           *)
(* lower-cased argument.                                                   *)
(***************************************************************************)
C10_UnknownStrategyRejected ==
    /\ (call.op = "__init__" /\ Lower(call.strategy) \notin {AUTO, API, YT_DLP, PYTUBEFIX}) =>
          /\ exc = Exception("ValueError")
          /\ self = None
    /\ self # None => self.strategy \in {AUTO, API, YT_DLP, PYTUBEFIX}
    /\ (call.op = "__init__" /\ self # None) => self.strategy = Lower(call.strategy)

\* strategy="web" is rejected
C10_Witness ==
    /\ call.op = "__init__"
    /\ call.strategy = UNKNOWN
    /\ exc = Exception("ValueError")
    /\ self = None

(***************************************************************************)
(* C11: __init__ given the strategy yt_dlp (pytubefix) while that library  *)
(* is unavailable raises ImportError and yields no instance; an instance   *)
(* whose strategy names one of the two libraries was constructed with the  *)
(* library available.                                                      *)
(***************************************************************************)
C11_MissingLibraryRejected ==
    /\ ( /\ call.op = "__init__"
         /\ \/ Lower(call.strategy) = YT_DLP /\ ~YT_DLP_AVAILABLE
            \/ Lower(call.strategy) = PYTUBEFIX /\ ~PYTUBEFIX_AVAILABLE )
       => /\ exc = Exception("ImportError")
          /\ self = None
    /\ (self # None /\ self.strategy = YT_DLP) => at_construction[2]
    /\ (self # None /\ self.strategy = PYTUBEFIX) => at_construction[3]

\* strategy="Yt_Dlp" without yt_dlp, the other two libraries importable
C11_Witness ==
    /\ call.op = "__init__"
    /\ call.strategy = YT_DLP_MIXED
    /\ ~YT_DLP_AVAILABLE
    /\ GOOGLE_API_AVAILABLE
    /\ PYTUBEFIX_AVAILABLE
    /\ exc = Exception("ImportError")
    /\ self = None

(***************************************************************************)
(* C12: __init__ given the strategy api while the API client library is    *)
(* not importable (so that no service handle can be built) raises and      *)
(* yields no instance, as it does for yt_dlp and pytubefix.                *)
(***************************************************************************)
C12_ApiWithoutClientRejected ==
    (call.op = "__init__" /\ Lower(call.strategy) = API /\ ~GOOGLE_API_AVAILABLE)
       => /\ exc # None
          /\ self = None

(***************************************************************************)
(* C13: for every valid identifier x, _validate_video_id returns x when    *)
(* given x bare and when given x in a watch URL (ended by the end of the   *)
(* string or by "&"), in a youtu.be short link, or in an /embed/ URL.      *)
(***************************************************************************)
C13_UrlFormsAccepted ==
    Completed("_validate_video_id") =>
       \A x \in ValidIds :
          (IsIdentifier(x) /\ call.video_id \in {x} \cup UrlForms(x)) => ret = x

ApiOutcomesMore(video_id) ==
    {Return([t |-> "dict", items |-> List(<<
        [t |-> "dict",
         snippet |-> [t |-> "dict", title |-> SrcTitle(video_id),
                      description |-> SrcDescription, channelTitle |-> SrcChannel,
                      publishedAt |-> SrcPublishedAt],
         statistics |-> [t |-> "dict", viewCount |-> viewCount]]>>)]) :
       viewCount \in {Str(<<"N", "/", "A">>), None}}

\* further answers of yt_dlp: an upload date strptime() cannot parse, and none
YtDlpOutcomesMore(video_url) ==
    {Return([t |-> "dict", title |-> SrcTitle(UrlVideo(video_url)),
             description |-> SrcDescription, channel |-> SrcChannel, uploader |-> None,
             upload_date |-> upload_date, view_count |-> PyInt(42)]) :
       upload_date \in {Str(<<"2", "0", "0", "5">>), None}}

AdapterOutcomes(fn, video_id) ==
    IF fn = "_get_video_info_api" THEN ApiOutcomes(video_id) \cup ApiOutcomesMore(video_id)
    ELSE IF fn = "_get_video_info_yt_dlp"
    THEN YtDlpOutcomes(WatchUrl(video_id)) \cup YtDlpOutcomesMore(WatchUrl(video_id))
    ELSE PytubefixOutcomes(WatchUrl(video_id))

\* self.<fn>(video_id), called from outside the class
Call_adapter(fn, video_id, outcome) ==
    /\ pc = "idle"
    /\ self # None
    /\ call' = [op |-> fn, video_id |-> video_id, outcome |-> outcome]
    /\ trace' = <<>>
    /\ LET out == Adapter(fn, video_id, outcome) IN
          /\ ret' = (IF out.kind = "return" THEN out.value ELSE None)
          /\ exc' = (IF out.kind = "raise" THEN Exception(out.exc) ELSE None)
    /\ UNCHANGED <<Flags, Outside, self, pc, batch, gvi, retry>>

CallAdapter ==
    \E fn \in AdapterNames, video_id \in {V1, V2} :
       \E outcome \in AdapterOutcomes(fn, video_id) : Call_adapter(fn, video_id, outcome)

NextAdapters ==
    \/ ConstructDefault
    \/ CallAdapter

SpecAdapters == Init /\ [][NextAdapters]_vars

\* the extraction_method an adapter tags its records with
Tag(fn) ==
    CASE fn = "_get_video_info_api" -> YOUTUBE_API
      [] fn = "_get_video_info_yt_dlp" -> YT_DLP
      [] fn = "_get_video_info_pytubefix" -> PYTUBEFIX

\* the source behind the called adapter failed: it raised, it found no
\* video, or there is no service handle or no library to ask
SourceFailed ==
    \/ call.outcome.kind = "raise"
    \/ /\ call.op = "_get_video_info_api"
       /\ \/ self.youtube_service = None
          \/ call.outcome.value.items = List(<<>>)
    \/ call.op = "_get_video_info_yt_dlp" /\ ~YT_DLP_AVAILABLE
    \/ call.op = "_get_video_info_pytubefix" /\ ~PYTUBEFIX_AVAILABLE

(***************************************************************************)
(* C15: a call of one of the three adapters raises nothing; it returns     *)
(* None whenever its source failed (it raised an HTTP error, a download    *)
(* error or any other exception, it found no video, or the service handle  *)
(* or the library is missing); and what it returns otherwise is None or a  *)
(* record of the six fields whose extraction_method is the adapter's own.  *)
(***************************************************************************)
C15_AdaptersNeverRaise ==
    (pc = "idle" /\ call.op \in AdapterNames) =>
       /\ exc = None
       /\ SourceFailed => ret = None
       /\ ret # None =>
             /\ DOMAIN ret = {"t", "title", "description", "channel_name",
                              "publication_date", "views", "extraction_method"}
             /\ ret.extraction_method = Tag(call.op)
             /\ ret.title = SrcTitle(call.video_id)

\* the API answered with a view count that int() cannot parse: the ValueError
\* stays inside the adapter, which returns None
C15_Witness ==
    /\ pc = "idle"
    /\ call.op = "_get_video_info_api"
    /\ self.youtube_service # None
    /\ call.outcome.kind = "return"
    /\ call.outcome.value.items # List(<<>>)
    /\ ~IsDecimal(call.outcome.value.items.v[1].statistics.viewCount)
    /\ call.outcome.value.items.v[1].statistics.viewCount # None
    /\ ret = None
    /\ exc = None

(***************************************************************************)
(* The specification of an instance that outlives a change of the module   *)
(* globals: between two calls the availability flags are assigned, as the  *)
(* test suite does with patch().                                           *)
(***************************************************************************)
\* extractor.GOOGLE_API_AVAILABLE, YT_DLP_AVAILABLE, PYTUBEFIX_AVAILABLE = ...
PatchFlags(google_api, yt_dlp, pytubefix) ==
    /\ pc = "idle"
    /\ self # None
    /\ GOOGLE_API_AVAILABLE' = google_api
    /\ YT_DLP_AVAILABLE' = yt_dlp
    /\ PYTUBEFIX_AVAILABLE' = pytubefix
    /\ UNCHANGED <<Outside, self, pc, batch, gvi, retry, call, trace, ret, exc>>

Patch == \E google_api, yt_dlp, pytubefix \in BOOLEAN : PatchFlags(google_api, yt_dlp, pytubefix)

\* get_video_info("jNQXAC9IVRw")
CallGetVideoInfoDefault == Call_get_video_info(V1, None)

NextPatch ==
    \/ ConstructDefault
    \/ Patch
    \/ get_available_strategies
    \/ CallGetVideoInfoDefault
    \/ Gvi_validate
    \/ Gvi_dispatch
    \/ Gvi_result
    \/ Retry_attempt
    \/ Retry_backoff

SpecPatch == Init /\ [][NextPatch]_vars

\* the strategies available to the instance as its construction found them
StrategiesAtConstruction ==
    (IF self.youtube_service # None THEN <<API>> ELSE <<>>)
    \o (IF at_construction[2] THEN <<YT_DLP>> ELSE <<>>)
    \o (IF at_construction[3] THEN <<PYTUBEFIX>> ELSE <<>>)

(***************************************************************************)
(* C16: the availability of yt_dlp and pytubefix to an instance is what    *)
(* its construction found, whatever the module globals are set to later:   *)
(* get_available_strategies returns the strategies available at            *)
(* construction, and the candidates of an "auto" get_video_info call are   *)
(* those strategies.                                                       *)
(***************************************************************************)
C16_AvailabilityFixedAtConstruction ==
    /\ Completed("get_available_strategies") => ret = List(StrategiesAtConstruction)
    /\ (call.op = "get_video_info" /\ gvi # None /\ gvi.k >= 1)
          => gvi.strategies = StrategiesAtConstruction
    /\ (AutoCall /\ StrategiesAtConstruction # <<>> /\ pc = "idle") => Count(IsRetryEv) >= 1

\* an exporter call that cannot succeed: the path cannot be opened for
\* writing, the data cannot be serialised, or there is no row to write
ExportFails(c) ==
    \/ Unwritable(c.output_file)
    \/ c.op = "export_to_json" /\ ~JsonSerializable(c.video_data)
    \/ /\ c.op = "export_to_csv"
       /\ \/ c.video_data \in {None, List(<<>>)}
          \/ \E i \in DOMAIN c.video_data.v : c.video_data.v[i].t # "dict"

(***************************************************************************)
(* C17: a call of export_to_json or export_to_csv raises nothing and       *)
(* returns a boolean: False when the path cannot be written, the data      *)
(* cannot be serialised or there is nothing to write, True otherwise, and  *)
(* then the file holds the whole data; no other file is touched; and       *)
(* export_to_csv given the empty list returns False and leaves every file  *)
(* as it was, the output file included.                                    *)
(***************************************************************************)
C17_ExportersNeverRaise ==
    [][ call'.op \in {"export_to_json", "export_to_csv"} =>
          /\ exc' = None
          /\ ret' = PyBool(~ExportFails(call'))
          /\ ret' = PyTrue =>
                LET doc == fs'[call'.output_file] IN
                IF call'.op = "export_to_json"
                THEN doc.t = "json" /\ doc.complete /\ doc.data = call'.video_data
                ELSE doc.t = "csv" /\ Len(doc.rows) = Len(call'.video_data.v)
          /\ \A path \in Paths \ {call'.output_file} : fs'[path] = fs[path]
          /\ Unwritable(call'.output_file) => fs' = fs
          /\ (call'.op = "export_to_csv" /\ call'.video_data = List(<<>>))
                => ret' = PyFalse /\ fs' = fs ]_vars

\* export_to_csv([], path) on a path that already holds a file: the file stays
C17_Witness ==
    /\ Completed("export_to_csv")
    /\ call.video_data = List(<<>>)
    /\ call.output_file = OUT_FILE
    /\ fs[OUT_FILE] # Absent
    /\ ret = PyFalse

\* the cell written for the field of a record: empty for a missing or None
\* field, the decimal digits of an integer, the text of a string with every
\* newline and carriage return turned into a space
CellOk(video, field, cell) ==
    LET present == field \in DOMAIN video IN
    /\ \A i \in DOMAIN cell.s : cell.s[i] \notin {"\n", "\r"}
    /\ (~present \/ video[field] = None) => cell = EmptyStr
    /\ (present /\ video[field].t = "str") =>
          /\ Len(cell.s) = Len(video[field].s)
          /\ \A i \in DOMAIN cell.s :
                cell.s[i] = (IF video[field].s[i] \in {"\n", "\r"} THEN " "
                             ELSE video[field].s[i])
    /\ (present /\ video[field].t = "int") =>
          IsDecimal(cell) /\ DecimalValue(cell.s) = video[field].n

(***************************************************************************)
(* C18: export_to_csv of a list of N >= 1 records to a writable path       *)
(* returns True and leaves a file with the header title, channel_name,     *)
(* views, publication_date, description, extraction_method and N rows of   *)
(* six cells, row i written from record i: a missing or None field is the  *)
(* empty cell, other keys of the record are dropped, and no cell holds a   *)
(* newline or a carriage return.                                           *)
(***************************************************************************)
C18_CsvHeaderAndRows ==
    ( /\ Completed("export_to_csv")
      /\ call.video_data # None
      /\ call.video_data.v # <<>>
      /\ \A i \in DOMAIN call.video_data.v : call.video_data.v[i].t = "dict"
      /\ ~Unwritable(call.output_file) )
    => LET doc == fs[call.output_file]
           videos == call.video_data.v
       IN  /\ ret = PyTrue
           /\ doc.t = "csv"
           /\ doc.header = <<"title", "channel_name", "views", "publication_date",
                             "description", "extraction_method">>
           /\ Len(doc.rows) = Len(videos)
           /\ \A i \in DOMAIN videos :
                 /\ Len(doc.rows[i]) = Len(doc.header)
                 /\ \A j \in DOMAIN doc.header :
                       CellOk(videos[i], doc.header[j], doc.rows[i][j])

\* a record whose description has a carriage return and two newlines, then a
\* failure record: the description's cell has spaces, the second row is empty
C18_Witness ==
    /\ Completed("export_to_csv")
    /\ call.video_data = List(<<RecordFull, FailureRecord(Invalid1)>>)
    /\ ret = PyTrue
    /\ fs[OUT_FILE].rows[1][3] = Str(<<"1", "0", "0", "0">>)
    /\ fs[OUT_FILE].rows[1][5] = Str(<<"a", " ", " ", "b", " ">>)
    /\ fs[OUT_FILE].rows[2] = [j \in 1..6 |-> EmptyStr]

(***************************************************************************)
(* Vocabulary of the command-line properties.  A run of main processes a   *)
(* single identifier when one is given, a batch file otherwise; it has     *)
(* reached the extraction when an input has been validated.                *)
(***************************************************************************)
SingleRan == Truthy(call.args.video_input) /\ Count(IsItemStart) >= 1

BatchRan == ~Truthy(call.args.video_input) /\ Count(IsItemStart) >= 1

SingleExtractionFailed == SingleRan /\ Positions(IsSuccessEv) = {}

\* the export the run was asked for could not be written
SingleExportFailed ==
    /\ SingleRan
    /\ Positions(IsSuccessEv) # {}
    /\ \/ call.args.format = "json" /\ call.args.output \in {INVALID_PATH}
       \/ call.args.format = "csv" /\ call.args.output \in {NotGiven, INVALID_PATH}

\* the files a batch run with --output-dir is asked to write
BatchTargets ==
    IF call.args.output_dir = NotGiven THEN {}
    ELSE {PathJoin(call.args.output_dir, name) :
             name \in CASE call.args.format = "json" -> {BATCH_JSON}
                        [] call.args.format = "csv" -> {BATCH_CSV}
                        [] OTHER -> {BATCH_JSON, BATCH_CSV}}

BatchExportFailed ==
    /\ BatchRan
    /\ \E path \in BatchTargets : fs[path] = Absent

(***************************************************************************)
(* C19: a run of main that returns, returns 0 or 1; it returns 1 when the  *)
(* extraction of the single identifier failed, and when a file it was      *)
(* asked to export could not be written, in single-identifier mode and in  *)
(* batch mode; so a run that processed its input and returned 0 extracted  *)
(* and exported everything it was asked to.                                *)
(***************************************************************************)
C19_ExitCodes ==
    (Completed("main") /\ exc = None) =>
       /\ ret \in {PyInt(0), PyInt(1)}
       /\ SingleExtractionFailed => ret = PyInt(1)
       /\ SingleExportFailed => ret = PyInt(1)
       /\ BatchExportFailed => ret = PyInt(1)

\* the arguments C20 is about: a single identifier with the format json or
\* csv and no --output, or neither an identifier nor --batch
InvalidCombination ==
    \/ /\ Truthy(call.args.video_input)
       /\ call.args.batch = NotGiven
       /\ call.args.format \in {"json", "csv"}
       /\ call.args.output = NotGiven
    \/ /\ ~Truthy(call.args.video_input)
       /\ call.args.batch = NotGiven

\* nothing was extracted and nothing was written
NothingDone ==
    /\ trace = <<>>
    /\ gvi = None
    /\ batch = None
    /\ fs = InitFiles

HasError(video) == Truthy(Get(video, "error", None))

\* lines 294-298: the record's view count enters the statistics
CountsViews(video) == ~HasError(video) /\ Truthy(Get(video, "views", None))

RECURSIVE sum(_)
sum(q) == IF q = <<>> THEN 0 ELSE q[1] + sum(Tail(q))

max(q) == CHOOSE x \in {q[i] : i \in DOMAIN q} : \A i \in DOMAIN q : q[i] <= x

min(q) == CHOOSE x \in {q[i] : i \in DOMAIN q} : \A i \in DOMAIN q : x <= q[i]

\* lines 288-300: view_counts after the loop
ViewCountsOf(videos) ==
    LET counted == SelectSeq(videos, CountsViews)
    IN  [i \in DOMAIN counted |-> counted[i].views.n]

create_summary_report(video_data_list) ==
    IF ~Truthy(video_data_list)
    THEN [t |-> "dict", error |-> Str(<<"N","o"," ","v","i","d","e","o"," ","d","a","t","a",
                                        " ","p","r","o","v","i","d","e","d">>)]
    ELSE LET videos == video_data_list.v
             total_videos == Len(videos)
             successful_extractions == Len(SelectSeq(videos, LAMBDA v : ~HasError(v)))
             view_counts == ViewCountsOf(videos)
             total_views == sum(view_counts)
         IN  [t |-> "dict",
              total_videos_processed |-> PyInt(total_videos),
              successful_extractions |-> PyInt(successful_extractions),
              failed_extractions |-> PyInt(total_videos - successful_extractions),
              view_statistics |->
                 [t |-> "dict",
                  total_views |-> PyInt(total_views),
                  \* int(total_views / len(view_counts)), lines 315 and 328
                  average_views |-> PyInt(IF view_counts # <<>>
                                          THEN total_views \div Len(view_counts) ELSE 0),
                  max_views |-> PyInt(IF view_counts # <<>> THEN max(view_counts) ELSE 0),
                  min_views |-> PyInt(IF view_counts # <<>> THEN min(view_counts) ELSE 0)]]

Call_create_summary_report(video_data_list) ==
    /\ pc = "idle"
    /\ call' = [op |-> "create_summary_report", video_data_list |-> video_data_list]
    /\ trace' = <<>>
    /\ exc' = None
    /\ ret' = create_summary_report(video_data_list)
    /\ UNCHANGED <<Flags, Outside, self, pc, batch, gvi, retry>>

(***************************************************************************)
(* clean_description, utils.py:67-88.                                      *)
(***************************************************************************)
NO_DESCRIPTION_AVAILABLE ==
    Str(<<"N","o"," ","d","e","s","c","r","i","p","t","i","o","n"," ",
          "a","v","a","i","l","a","b","l","e">>)

ELLIPSIS == <<".", ".", ".">>

RECURSIVE CollapseWhitespace(_)
\* re.sub(r"\s+", " ", s): every run of whitespace becomes one space
CollapseWhitespace(s) ==
    IF s = <<>> THEN <<>>
    ELSE IF s[1] \in Whitespace
    THEN <<" ">> \o CollapseWhitespace(LStrip(s))
    ELSE <<s[1]>> \o CollapseWhitespace(Tail(s))

\* s[:n] for n >= 0
Prefix(s, n) == SubSeq(s, 1, IF n < Len(s) THEN n ELSE Len(s))

\* Truncated without the strip() of line 86: C22 must detect it
Truncated_Unstripped(cleaned, max_length) == Str(Prefix(cleaned.s, max_length) \o ELLIPSIS)

\* line 86: cleaned[:max_length].strip() + "..."
Truncated(cleaned, max_length) ==
    Str(Strip(Str(Prefix(cleaned.s, max_length))).s \o ELLIPSIS)

clean_description(description, max_length) ==
    IF ~Truthy(description) THEN NO_DESCRIPTION_AVAILABLE
    ELSE LET cleaned == Str(CollapseWhitespace(Strip(description).s))
         IN  IF Len(cleaned.s) > max_length THEN Truncated(cleaned, max_length)
             ELSE cleaned

Call_clean_description(description, max_length) ==
    /\ pc = "idle"
    /\ call' = [op |-> "clean_description", description |-> description,
                max_length |-> max_length]
    /\ trace' = <<>>
    /\ exc' = None
    /\ ret' = clean_description(description, max_length)
    /\ UNCHANGED <<Flags, Outside, self, pc, batch, gvi, retry>>

(***************************************************************************)
(* The specification of the formatting helpers: create_summary_report is   *)
(* called with lists of at most MaxRows records, clean_description with    *)
(* descriptions of at most MaxDescLen characters.  The helpers keep no     *)
(* state: a behaviour is one call of one of them.                          *)
(***************************************************************************)
\* a record with the given view count, as an adapter makes it
RecordViews(views) ==
    VideoInfo(SrcTitle(V2), SrcDescription, SrcChannel, SrcPublishedAt, views, YT_DLP)

SummaryRecords ==
    {RecordViews(views) : views \in {None, PyInt(0), PyInt(1000), PyInt(3001)}}
    \cup {RecordTitleOnly, FailureRecord(Invalid1),
          [FailureRecord(V1) EXCEPT !.extraction_method = YT_DLP] @@ [views |-> PyInt(7)]}

DescriptionChars == {"a", " ", "\n"}

CallCreateSummaryReport ==
    /\ call.op = ""
    /\ \E q \in SeqsUpTo(SummaryRecords, MaxRows) : Call_create_summary_report(List(q))

CallCleanDescription ==
    /\ call.op = ""
    /\ \E description \in {None} \cup {Str(q) : q \in SeqsUpTo(DescriptionChars, MaxDescLen)},
          max_length \in 0..3 :
           Call_clean_description(description, max_length)

NextUtils ==
    \/ CallCreateSummaryReport
    \/ CallCleanDescription

SpecUtils == InitExport /\ [][NextUtils]_vars

\* the records C21 counts: no error, and a view count that is not null
KnownViews(videos) ==
    SelectSeq(videos, LAMBDA v : ~HasError(v) /\ Get(v, "views", None) # None)

(***************************************************************************)
(* C21: the view statistics of create_summary_report are the total, the    *)
(* average, the maximum and the minimum of the view counts of the records  *)
(* that are no failure records and whose view count is not null, a count   *)
(* of 0 included; all four are 0 when there is no such record.             *)
(***************************************************************************)
C21_ViewStatistics ==
    (Completed("create_summary_report") /\ call.video_data_list.v # <<>>) =>
       LET known == KnownViews(call.video_data_list.v)
           counts == [i \in DOMAIN known |-> known[i].views.n]
           stats == ret.view_statistics
       IN  IF counts = <<>>
           THEN /\ stats.total_views = PyInt(0)
                /\ stats.average_views = PyInt(0)
                /\ stats.max_views = PyInt(0)
                /\ stats.min_views = PyInt(0)
           ELSE /\ stats.total_views = PyInt(sum(counts))
                /\ stats.average_views = PyInt(sum(counts) \div Len(counts))
                /\ \E i \in DOMAIN counts : stats.max_views = PyInt(counts[i])
                /\ \E i \in DOMAIN counts : stats.min_views = PyInt(counts[i])
                /\ \A i \in DOMAIN counts :
                      /\ counts[i] <= stats.max_views.n
                      /\ stats.min_views.n <= counts[i]

\* the whitespace-collapsed, trimmed text of the description of the call
CollapsedText == CollapseWhitespace(Strip(call.description).s)

(***************************************************************************)
(* C22 as stated: clean_description(d, max_length) returns the placeholder *)
(* for a null or empty d; otherwise, when the collapsed, trimmed text of d *)
(* is longer than max_length, exactly its first max_length characters      *)
(* followed by "..." (max_length + 3 characters in all), and the whole     *)
(* collapsed text when it is not longer.                                   *)
(***************************************************************************)
C22_AsStated ==
    Completed("clean_description") =>
       IF call.description \in {None, EmptyStr} THEN ret = NO_DESCRIPTION_AVAILABLE
       ELSE IF Len(CollapsedText) > call.max_length
       THEN /\ ret.s = SubSeq(CollapsedText, 1, call.max_length) \o <<".", ".", ".">>
            /\ Len(ret.s) = call.max_length + 3
       ELSE ret.s = CollapsedText

(***************************************************************************)
(* C22, amended: as stated, except that a space at the end of the first    *)
(* max_length characters is dropped before "..." is appended: when the     *)
(* character at position max_length of the collapsed text is a space, the  *)
(* result is the first max_length - 1 characters followed by "..."         *)
(* (max_length + 2 characters in all).                                     *)
(***************************************************************************)
C22_TruncationStripsSpace ==
    Completed("clean_description") =>
       IF call.description \in {None, EmptyStr} THEN ret = NO_DESCRIPTION_AVAILABLE
       ELSE IF Len(CollapsedText) > call.max_length
       THEN LET kept == IF call.max_length >= 1 /\ CollapsedText[call.max_length] = " "
                        THEN call.max_length - 1 ELSE call.max_length
            IN  /\ ret.s = SubSeq(CollapsedText, 1, kept) \o <<".", ".", ".">>
                /\ Len(ret.s) = kept + 3
       ELSE ret.s = CollapsedText

\* "a \n a" cut at 2: the text is "a a", its first two characters end in a
\* space, and the result is "a..."
C22_Witness ==
    /\ Completed("clean_description")
    /\ call.description = Str(<<"a", " ", "\n", " ", "a">>)
    /\ call.max_length = 2
    /\ ret = Str(<<"a", ".", ".", ".">>)

(***************************************************************************)
(* The specification of two instances, each driven by its own thread: the  *)
(* variables hold the instance whose thread runs, other the one whose      *)
(* thread is suspended, and the scheduler may switch between any two       *)
(* steps.  The module globals are the only state both threads can reach.   *)
(***************************************************************************)
\* the instance that runs
Running(id) ==
    Owned(id, self, pc, <<batch, gvi, retry>>, <<call, trace, ret, exc, at_construction>>)

Switch ==
    /\ other' = Running(IF other.id = "B" THEN "A" ELSE "B")
    /\ self' = other.self
    /\ pc' = other.pc
    /\ batch' = other.frames[1]
    /\ gvi' = other.frames[2]
    /\ retry' = other.frames[3]
    /\ call' = other.history[1]
    /\ trace' = other.history[2]
    /\ ret' = other.history[3]
    /\ exc' = other.history[4]
    /\ at_construction' = other.history[5]
    /\ UNCHANGED <<Flags, fs, cli>>

\* YouTubeVideoInfoExtractor(max_retries=..., backoff_factor=..., rate_limit_delay=...)
ConstructOwn ==
    \E api_key \in {None, Str(<<"K">>)}, max_retries \in {1, 2} :
        __init__(api_key, None, TRUE, AUTO, max_retries, 1 + max_retries, 4 + max_retries)

NextTwo ==
    \/ ConstructOwn
    \/ Switch
    \/ CallGetVideoInfoDefault
    \/ Gvi_validate
    \/ Gvi_dispatch
    \/ Gvi_result
    \/ Retry_attempt
    \/ Retry_backoff

SpecTwo == InitExport /\ [][NextTwo]_vars

\* the adapter events between the last _extract_with_retry call before
\* position p and p
AttemptsBefore(p) ==
    Cardinality({q \in 1..p : /\ IsAdapterEv(trace[q])
                              /\ \A r \in q..p : ~IsRetryEv(trace[r])})

\* the get_video_info call of the running instance is what the instance's
\* own attributes and the answers to its own adapter invocations make it
OwnConfigOnly ==
    (call.op = "get_video_info" /\ pc # "gvi_286") =>
       /\ \A p \in Positions(IsRateLimitSleep) : trace[p].secs = self.rate_limit_delay
       /\ \A p \in DOMAIN trace :
             IsSleepAt(trace[p], 368) =>
                trace[p].secs = Pow(self.backoff_factor, AttemptsBefore(p) - 1)
       /\ \A p \in Positions(IsAdapterEv) :
             /\ IsAvailable(trace[p].fn)
             /\ Invocations(trace[p].fn) <= self.max_retries
             /\ \A q \in Positions(IsAdapterEv) :
                   p < q => /\ Rank(trace[p].fn) <= Rank(trace[q].fn)
                            /\ trace[p].result = None
       /\ Count(IsSleepEv) <= 1 + Count(IsAdapterEv)
       /\ pc = "idle" =>
             IF Positions(IsSuccessEv) # {}
             THEN \A p \in Positions(IsSuccessEv) : ret = trace[p].result
             ELSE /\ ret = None
                  /\ \A fn \in AdapterNames :
                        IsAvailable(fn) => Invocations(fn) = self.max_retries

(***************************************************************************)
(* C23: two instances share no mutable state.  However the steps of their  *)
(* calls interleave, no step of an instance changes the module globals or  *)
(* anything the other instance owns (its attributes, its frames, its       *)
(* results), and the delays, adapter invocations and result of every       *)
(* get_video_info call are those its own instance's attributes and the     *)
(* answers to its own invocations determine.                               *)
(***************************************************************************)
C23_NoSharedState ==
    [][ /\ Flags' = Flags
        /\ IF other'.id # other.id
           THEN other'.self = self /\ self' = other.self /\ trace' = other.history[2]
           ELSE other' = other
        /\ OwnConfigOnly' ]_vars

\* the running instance, with max_retries 2 and no service handle, exhausted
\* yt_dlp and pytubefix while the other instance, with max_retries 1 and a
\* service handle, is suspended inside a call of its own
C23_Witness ==
    /\ Completed("get_video_info")
    /\ self.max_retries = 2
    /\ self.youtube_service = None
    /\ Count(IsAdapterEv) = 4
    /\ ret = None
    /\ other.self # None
    /\ other.self.max_retries = 1
    /\ other.self.youtube_service # None
    /\ other.pc = "retry_365"

(***************************************************************************)
(* C24: a direct _extract_with_retry call whose adapter first succeeds on  *)
(* attempt k (1 <= k <= max_retries) invokes the adapter exactly k times,  *)
(* the first k-1 invocations returning nothing; it sleeps exactly k-1      *)
(* times, once after each failed attempt and never after the successful    *)
(* one; and it returns the record of attempt k unchanged.                  *)
(***************************************************************************)
C24_FirstSuccessReturned ==
    (Completed("_extract_with_retry") /\ Positions(IsSuccessEv) # {}) =>
       LET k == Count(IsAdapterEv) IN
       /\ k \in 1..self.max_retries
       /\ Len(trace) = 2 * k
       /\ IsRetryEv(trace[1])
       /\ \A i \in 1..k :
             /\ IsAdapterEv(trace[2 * i])
             /\ trace[2 * i].fn = StrategyAdapter(call.strategy)
             /\ i < k => /\ trace[2 * i].result = None
                         /\ IsSleepAt(trace[2 * i + 1], 368)
       /\ Count(IsSleepEv) = k - 1
       /\ trace[2 * k].result # None
       /\ ret = trace[2 * k].result
       /\ exc = None

\* yt_dlp fails twice and answers on the third and last attempt
C24_Witness ==
    /\ Completed("_extract_with_retry")
    /\ call.strategy = YT_DLP
    /\ self.max_retries = 3
    /\ Count(IsAdapterEv) = 3
    /\ Count(IsSleepEv) = 2
    /\ ret # None
    /\ ret.extraction_method = YT_DLP
    /\ ret.title = SrcTitle(V1)

(***************************************************************************)
(* C25: a direct _extract_with_retry call with a strategy name other than  *)
(* api, yt_dlp and pytubefix invokes no adapter, sleeps never, raises      *)
(* nothing and returns None without a second attempt, whatever max_retries *)
(* is.                                                                     *)
(***************************************************************************)
C25_UnknownStrategyNoRetry ==
    (call.op = "_extract_with_retry" /\ call.strategy \notin {API, YT_DLP, PYTUBEFIX}) =>
       /\ trace = <<RetryEv(call.strategy)>>
       /\ retry # None => retry.attempt = 0
       /\ pc \in {"retry_346", "idle"}
       /\ exc = None
       /\ ret = None

\* _extract_with_retry(id, "web") on an instance with max_retries 3
C25_Witness ==
    /\ Completed("_extract_with_retry")
    /\ call.strategy = UNKNOWN
    /\ self.max_retries = 3
    /\ Count(IsAdapterEv) = 0
    /\ Count(IsSleepEv) = 0
    /\ ret = None

(***************************************************************************)
(* C26: the API adapter called without a service handle returns None; with *)
(* one, and given a response that holds a video item, it returns a record  *)
(* tagged youtube_api with the item's title, description, channel and date *)
(* whose views is the parsed integer when the view-count field is a        *)
(* decimal number, and None when the field is absent or cannot be parsed.  *)
(***************************************************************************)
C26_ViewsNullWhenUnparseable ==
    (pc = "idle" /\ call.op = "_get_video_info_api") =>
       IF self.youtube_service = None THEN ret = None /\ exc = None
       ELSE (call.outcome.kind = "return" /\ call.outcome.value.items.v # <<>>) =>
               LET item == call.outcome.value.items.v[1]
                   viewCount == item.statistics.viewCount
               IN  /\ ret # None
                   /\ ret.extraction_method = YOUTUBE_API
                   /\ ret.title = item.snippet.title
                   /\ ret.description = item.snippet.description
                   /\ ret.channel_name = item.snippet.channelTitle
                   /\ ret.publication_date = item.snippet.publishedAt
                   /\ ret.views = IF IsDecimal(viewCount)
                                  THEN PyInt(DecimalValue(viewCount.s)) ELSE None

(***************************************************************************)
(* The specification of "auto" calls that run to their end: instances with *)
(* the default strategy "auto" and max_retries 0..MaxRetries, and the      *)
(* interpreter goes on executing a call that has started (weak fairness of *)
(* the steps of the call; time.sleep and the adapters return).             *)
(***************************************************************************)
ConstructAuto ==
    \E api_key \in {None, Str(<<"K">>)}, max_retries \in 0..MaxRetries :
        __init__(api_key, None, TRUE, AUTO, max_retries, 2, 5)

\* a step of the running call
CallStep ==
    \/ Gvi_validate
    \/ Gvi_dispatch
    \/ Gvi_result
    \/ Retry_attempt
    \/ Retry_backoff

NextAuto ==
    \/ ConstructAuto
    \/ CallGetVideoInfoDefault
    \/ CallStep

SpecAuto == Init /\ [][NextAuto]_vars /\ WF_vars(CallStep)

\* the adapters available to the instance
AvailableAdapters == {fn \in AdapterNames : IsAvailable(fn)}

\* max(n - 1, 0)
Pred(n) == IF n >= 1 THEN n - 1 ELSE 0

\* the bounds of C27 on the events of an "auto" call
AutoBounds ==
    AutoCall =>
       LET k == Cardinality(AvailableAdapters)
           N == self.max_retries
       IN  /\ Count(IsAdapterEv) <= k * N
           /\ Count(IsSleepEv) <= 1 + k * Pred(N)
           /\ N = 0 => Count(IsAdapterEv) = 0
           /\ \A q \in Positions(IsAdapterEv) :
                 \* the first invocation of an adapter that is not the first
                 \* of the call: the event before its _extract_with_retry call
                 \* is the N-th failed attempt of the adapter before it
                 (q > 4 /\ \A r \in 1..(q - 1) : IsAdapterEv(trace[r]) => trace[r].fn # trace[q].fn)
                    => /\ IsRetryEv(trace[q - 1])
                       /\ IsAdapterEv(trace[q - 2])
                       /\ trace[q - 2].result = None
                       /\ Cardinality({r \in 1..q : /\ IsAdapterEv(trace[r])
                                                   /\ trace[r].fn = trace[q - 2].fn
                                                   /\ trace[r].result = None}) = N
           /\ (pc = "idle" /\ Positions(IsSuccessEv) = {}) =>
                 /\ Count(IsAdapterEv) = k * N
                 /\ Count(IsSleepEv) = 1 + k * Pred(N)
                 /\ ret = None

(***************************************************************************)
(* C27: a get_video_info call with the effective strategy "auto", k        *)
(* available adapters and max_retries N ends, after at most k*N adapter    *)
(* invocations and 1 + k*max(N-1, 0) delays; when every attempt fails it   *)
(* makes exactly that many and returns None; an adapter is first invoked   *)
(* only after the one before it has failed N times, with no delay between  *)
(* that one's last attempt and its own first; for N = 0 no adapter is      *)
(* invoked.                                                                *)
(***************************************************************************)
C27_BoundedTermination ==
    /\ []AutoBounds
    /\ (call.op = "get_video_info") ~> (call.op = "get_video_info" /\ pc = "idle")

\* three adapters, two attempts each, all failed: six invocations, the
\* rate-limit delay and one backoff per adapter
C27_Witness ==
    /\ Completed("get_video_info")
    /\ AutoCall
    /\ Cardinality(AvailableAdapters) = 3
    /\ self.max_retries = 2
    /\ Count(IsAdapterEv) = 6
    /\ Count(IsSleepEv) = 4
    /\ ret = None

(***************************************************************************)
(* C28: a get_video_info call for a valid identifier whose override names  *)
(* an adapter that is unavailable to the instance (api without a service   *)
(* handle, yt_dlp or pytubefix with its flag false) still invokes that     *)
(* adapter max_retries times, each time to no result, with a backoff delay *)
(* after every attempt but the last; it invokes no other adapter and       *)
(* returns None.                                                           *)
(***************************************************************************)
C28_UnavailableStillRetried ==
    ( /\ call.op = "get_video_info"
      /\ IsIdentifier(call.video_input)
      /\ call.strategy \in {API, YT_DLP, PYTUBEFIX}
      /\ ~IsAvailable(StrategyAdapter(call.strategy)) )
    => /\ \A p \in Positions(IsAdapterEv) :
             /\ trace[p].fn = StrategyAdapter(call.strategy)
             /\ trace[p].result = None
       /\ \A p \in Positions(IsRetryEv) : trace[p].strategy = call.strategy
       /\ pc = "idle" =>
             /\ Count(IsRetryEv) = 1
             /\ Count(IsAdapterEv) = self.max_retries
             /\ Cardinality({p \in DOMAIN trace : IsSleepAt(trace[p], 368)})
                   = Pred(self.max_retries)
             /\ ret = None
             /\ exc = None

\* the override api on an instance without a service handle, yt_dlp being
\* available: three invocations of the API adapter, two backoff delays
C28_Witness ==
    /\ Completed("get_video_info")
    /\ call.strategy = API
    /\ self.youtube_service = None
    /\ YT_DLP_AVAILABLE
    /\ self.max_retries = 3
    /\ Invocations("_get_video_info_api") = 3
    /\ Count(IsAdapterEv) = 3
    /\ Count(IsSleepEv) = 3
    /\ ret = None

\* what C29 says of a call whose override is in the set `overrides`: once
\* past the validation it has made the rate-limit delay, it invokes no
\* adapter, raises nothing and returns None
NoAdapterFor(overrides) ==
    ( /\ call.op = "get_video_info"
      /\ IsIdentifier(call.video_input)
      /\ call.strategy \in overrides )
    => /\ pc # "gvi_286" => Count(IsRateLimitSleep) = 1
       /\ Count(IsAdapterEv) = 0
       /\ Count(IsSleepEv) <= 1
       /\ exc = None
       /\ ret = None

\* the overrides outside {auto, api, yt_dlp, pytubefix}
OverridesOutside == StrategyArgs \ ({None} \cup valid_strategies)

(***************************************************************************)
(* C29 as stated: a get_video_info call for a valid identifier with an     *)
(* override outside {auto, api, yt_dlp, pytubefix}, "AUTO" included, makes *)
(* the rate-limit delay, invokes no adapter, raises nothing and returns    *)
(* None; and no step of a get_video_info call changes the instance, its    *)
(* default strategy included.                                              *)
(***************************************************************************)
C29_AsStated ==
    [][ call'.op = "get_video_info" =>
          /\ NoAdapterFor(OverridesOutside)'
          /\ self' = self ]_vars

(***************************************************************************)
(* C29, amended: as stated, for an override outside {auto, api, yt_dlp,    *)
(* pytubefix} that is not the empty string; the empty string counts as no  *)
(* override, and the call uses the instance's default strategy.            *)
(***************************************************************************)
C29_OverrideNotNormalised ==
    [][ call'.op = "get_video_info" =>
          /\ NoAdapterFor(OverridesOutside \ {EmptyStr})'
          /\ (call'.strategy = EmptyStr /\ gvi' # None /\ gvi'.use_strategy # None)
                => gvi'.use_strategy = self.strategy
          /\ self' = self ]_vars

\* the override "AUTO" on an "auto" instance with yt_dlp available and
\* max_retries 2: the delay, one _extract_with_retry call, no adapter
C29_Witness ==
    /\ Completed("get_video_info")
    /\ call.strategy = AUTO_UPPER
    /\ self.strategy = AUTO
    /\ YT_DLP_AVAILABLE
    /\ self.max_retries = 2
    /\ trace = <<ValidateEv(286), SleepEv(295, 5), RetryEv(AUTO_UPPER)>>
    /\ ret = None

\* the effective strategy of the get_video_info calls of the batch
BatchEffective == Or(call.strategy, self.strategy)

\* the non-null result r of the get_video_info call of item i is the record
\* of the item's successful invocation and carries that adapter's method;
\* under a named strategy the adapter is the named one, under "auto" every
\* invocation before it was of an adapter of no lower priority and failed
ProducerTagged(i, r) ==
    /\ ItemSuccesses(i) # {}
    /\ \A p \in ItemSuccesses(i) :
          /\ r = trace[p].result
          /\ r.extraction_method = Tag(trace[p].fn)
          /\ BatchEffective \in {API, YT_DLP, PYTUBEFIX}
                => trace[p].fn = StrategyAdapter(BatchEffective)
          /\ BatchEffective = AUTO =>
                \A q \in ItemEvents(i) :
                   (IsAdapterEv(trace[q]) /\ q < p) =>
                      /\ trace[q].result = None
                      /\ Rank(trace[q].fn) <= Rank(trace[p].fn)

(***************************************************************************)
(* C30: every non-null result of a get_video_info call carries the         *)
(* extraction_method of the adapter that produced it: the named adapter's  *)
(* under a named effective strategy, the first adapter's that succeeded,   *)
(* in priority order, under "auto"; and an element of a batch_extract      *)
(* result has the extraction_method None exactly when it is a failure      *)
(* record.                                                                 *)
(***************************************************************************)
C30_MethodTagsProducer ==
    call.op = "batch_extract" =>
       /\ (pc = "batch_432" /\ batch.result # None) =>
             ProducerTagged(batch.i + 1, batch.result)
       /\ pc = "idle" =>
             \A i \in DOMAIN ret.v :
                /\ ret.v[i].extraction_method = None <=> IsFailureRecord(ret.v[i])
                /\ ~IsFailureRecord(ret.v[i]) =>
                      /\ ProducerTagged(i, ret.v[i])
                      /\ ret.v[i].extraction_method \in {YOUTUBE_API, YT_DLP, PYTUBEFIX}

\* an invalid input, then an identifier for which, under "auto", api fails
\* and yt_dlp answers: a failure record and a record tagged yt_dlp
C30_Witness ==
    /\ Completed("batch_extract")
    /\ BatchEffective = AUTO
    /\ call.video_inputs = <<Invalid1, V2>>
    /\ ret.v[1].extraction_method = None
    /\ ret.v[2].extraction_method = YT_DLP
    /\ \E p \in ItemEvents(2) :
          IsAdapterEv(trace[p]) /\ trace[p].fn = "_get_video_info_api"

=============================================================================
